---- MODULE Spec2Model ----
(***************************************************************************)
(* Model of the tithe-report core: the Amount Normalizer, the annual       *)
(* temporal merge (_collect_annual_person_data / build_annual_region_table)*)
(* the duplicate detector (compute_merge_views) and the batch orchestration*)
(* (run_subfolder_merge).                                                  *)
(*                                                                         *)
(* Text is modelled as a sequence of one-character strings, so that        *)
(* strip / replace / regex filters are computed and not assumed.  Korean   *)
(* literals of the source are written in ASCII:                            *)
(*   "X" stands for the text "chul-gyeol-je-oe" (attendance exempt).       *)
(* A null cell (NaN / None / pd.NA read from a sheet) is the one-element   *)
(* sequence NaNCell, whose element is no character of any text.            *)
(***************************************************************************)
EXTENDS Integers, Sequences, FiniteSets, TLC

\* ------------------------------------------------------------------ bounds
\* longest cell text drawn for the amount functions
MaxLen == 5

\* most input files of one annual run
MaxFiles == 3

\* most snapshots of one merged batch
MaxBatch == 4

\* most subfolders of one batch run
MaxFolders == 3

\* largest max_workers asked for
MaxWorkers == 2

\* most source columns of one frame
MaxCols == 3

\* most rows of one sheet preview
MaxRows == 3

\* most tokens of one free-text line
MaxTokens == 4

\* longest header text for the normalizer
MaxHeaderLen == 4

\* most lines of a free-text file
MaxLines == 3

\* most members of a region in one month of the drawn counts
MaxTotal == 4

\* -------------------------------------------------------------------- text
NaNCell == <<"NaN">>

isna(v) == v = NaNCell

Digits == {"0", "1", "2", "3", "4", "5", "6", "7", "8", "9"}

\* str(v): a null cell prints as the text nan, a text is itself
str(v) == IF isna(v) THEN <<"n", "a", "n">> ELSE v

RECURSIVE lstrip(_)
lstrip(s) == IF s # <<>> /\ Head(s) = " " THEN lstrip(Tail(s)) ELSE s

RECURSIVE rstrip(_)
rstrip(s) ==
    IF s # <<>> /\ s[Len(s)] = " " THEN rstrip(SubSeq(s, 1, Len(s) - 1)) ELSE s

\* str.strip()
strip(s) == rstrip(lstrip(s))

\* str.replace(old, new) for a one-character old and a new of length 0 or 1
RECURSIVE replace(_, _, _)
replace(s, old, new) ==
    IF s = <<>> THEN <<>>
    ELSE (IF Head(s) = old THEN new ELSE <<Head(s)>>) \o replace(Tail(s), old, new)

\* re.sub(r"[^0-9.\-]", "", s)
RECURSIVE keep_numeric_chars(_)
keep_numeric_chars(s) ==
    IF s = <<>> THEN <<>>
    ELSE (IF Head(s) \in Digits \cup {".", "-"} THEN <<Head(s)>> ELSE <<>>)
             \o keep_numeric_chars(Tail(s))

\* sub in s (Python's substring test)
contains(s, sub) ==
    \E i \in 0..(Len(s) - Len(sub)) : SubSeq(s, i + 1, i + Len(sub)) = sub

\* ----------------------------------------------------------------- numbers
\* A number is num/den with den a power of ten (the decimal that was written).
DigitVal(c) ==
    CASE c = "0" -> 0 [] c = "1" -> 1 [] c = "2" -> 2 [] c = "3" -> 3
      [] c = "4" -> 4 [] c = "5" -> 5 [] c = "6" -> 6 [] c = "7" -> 7
      [] c = "8" -> 8 [] c = "9" -> 9

RECURSIVE Pow10(_)
Pow10(n) == IF n = 0 THEN 1 ELSE 10 * Pow10(n - 1)

RECURSIVE DigitsVal(_)
DigitsVal(ds) ==
    IF ds = <<>> THEN 0
    ELSE 10 * DigitsVal(SubSeq(ds, 1, Len(ds) - 1)) + DigitVal(ds[Len(ds)])

AllDigits(s) == \A i \in 1..Len(s) : s[i] \in Digits

Unsigned(s) == IF s # <<>> /\ Head(s) = "-" THEN Tail(s) ELSE s

DotAt(s) == IF \E i \in 1..Len(s) : s[i] = "."
            THEN CHOOSE i \in 1..Len(s) : s[i] = "." /\ \A j \in 1..(i - 1) : s[j] # "."
            ELSE 0

\* [-]digits, [-]digits.digits, [-]digits. or [-].digits : at least one digit
IsDecimal(s) ==
    LET u == Unsigned(s)
        d == DotAt(u)
    IN  IF d = 0 THEN u # <<>> /\ AllDigits(u)
        ELSE /\ AllDigits(SubSeq(u, 1, d - 1))
             /\ AllDigits(SubSeq(u, d + 1, Len(u)))
             /\ Len(u) > 1

DecimalValue(s) ==
    LET u    == Unsigned(s)
        d    == DotAt(u)
        ip   == IF d = 0 THEN u ELSE SubSeq(u, 1, d - 1)
        fp   == IF d = 0 THEN <<>> ELSE SubSeq(u, d + 1, Len(u))
        sign == IF u # s THEN -1 ELSE 1
    IN  [num |-> sign * (DigitsVal(ip) * Pow10(Len(fp)) + DigitsVal(fp)),
         den |-> Pow10(Len(fp))]

NumEq(a, b) == a.num * b.den = b.num * a.den

Positive(a) == a.num > 0

\* results of the normalizers: pd.NA, the float nan, or a number
NA == [kind |-> "NA", num |-> 0, den |-> 1]

nan == [kind |-> "nan", num |-> 0, den |-> 1]

Number(v) == [kind |-> "num", num |-> v.num, den |-> v.den]

\* pd.isna of a normalizer result
notna(r) == r.kind = "num"

\* pd.to_numeric(text, errors="coerce")
to_numeric(text) ==
    IF isna(text) THEN nan
    ELSE IF IsDecimal(text) THEN Number(DecimalValue(text)) ELSE nan

\* --------------------------------------------------- utils/excel_utils.py
\* variant: what is not a number is zero
clean_amount_zero(value) ==
    IF isna(value) \/ ~IsDecimal(keep_numeric_chars(strip(str(value))))
    THEN Number([num |-> 0, den |-> 1])
    ELSE to_numeric(keep_numeric_chars(strip(str(value))))

clean_amount(value) ==
    IF isna(value) THEN NA
    ELSE LET text0 == strip(str(value)) IN
         IF text0 = <<>> THEN NA
         ELSE LET text1 == replace(text0, " ", <<>>)
                  text2 == replace(text1, ",", <<".">>)
                  text3 == keep_numeric_chars(text2)
              IN  IF text3 \in {<<>>, <<"-">>, <<".">>, <<"-", ".">>} THEN NA
                  ELSE to_numeric(text3)

\* variant: the comma is not turned into a point and is dropped as a
\* grouping mark
clean_amount_element_drop_comma(value) ==
    LET text3 == keep_numeric_chars(replace(strip(str(value)), " ", <<>>))
    IN  IF isna(value) \/ text3 \in {<<>>, <<"-">>, <<".">>, <<"-", ".">>}
        THEN nan ELSE to_numeric(text3)

\* one element of clean_amount_vectorized: mask, astype(str), the three
\* replacements, the blank table, to_numeric, where(~mask)
clean_amount_element(value) ==
    LET mask  == isna(value)
        text0 == strip(str(value))
        text1 == replace(text0, " ", <<>>)
        text2 == replace(text1, ",", <<".">>)
        text3 == keep_numeric_chars(text2)
        text4 == IF text3 \in {<<>>, <<"-">>, <<".">>, <<"-", ".">>}
                 THEN NaNCell ELSE text3
        out   == to_numeric(text4)
    IN  IF mask THEN nan ELSE out

clean_amount_vectorized(series) ==
    IF series = <<>> THEN series
    ELSE [i \in DOMAIN series |-> clean_amount_element(series[i])]

\* ------------------------------------------------ services/report_service.py
None == [kind |-> "None", num |-> 0, den |-> 1]

\* int(s): an optional sign and digits; float(s): a decimal with a point
_parse_amount_report(val) ==
    IF isna(val) THEN None
    ELSE LET s == replace(replace(strip(str(val)), ",", <<>>), " ", <<>>) IN
         IF s = <<>> THEN None
         ELSE IF contains(s, <<".">>)
              THEN (IF IsDecimal(s) THEN Number(DecimalValue(s)) ELSE None)
              ELSE (IF IsDecimal(s) THEN Number(DecimalValue(s)) ELSE None)

\* variant: a zero amount counts as paid
_parse_paid_amount_nonneg(val) ==
    LET amt == _parse_amount_report(val) IN
    IF amt # None THEN <<amt.num >= 0, amt>>
    ELSE IF isna(val) THEN <<FALSE, Number([num |-> 0, den |-> 1])>>
    ELSE IF strip(str(val)) = <<>> THEN <<FALSE, Number([num |-> 0, den |-> 1])>>
    ELSE <<TRUE, Number([num |-> 0, den |-> 1])>>

_parse_paid_amount(val) ==
    LET amt == _parse_amount_report(val) IN
    IF amt # None THEN <<Positive(amt), amt>>
    ELSE IF isna(val) THEN <<FALSE, Number([num |-> 0, den |-> 1])>>
    ELSE IF strip(str(val)) = <<>> THEN <<FALSE, Number([num |-> 0, den |-> 1])>>
    ELSE <<TRUE, Number([num |-> 0, den |-> 1])>>

\* ------------------------------------------- services/annual_stats_service.py
\* A file name is what _YYYYMM_RE.search finds in its stem: the two groups, or
\* no match (both groups empty).
NoMatch == [year_text |-> <<>>, month_text |-> <<>>]

\* Optional values: <<>> is None, <<v>> is v.
_parse_yyyymm_from_name(filename) ==
    IF filename = NoMatch THEN <<>>
    ELSE LET year_text == filename.year_text
             year0 == DigitsVal(year_text)
             year  == IF Len(year_text) = 2 THEN year0 + 2000 ELSE year0
             month == DigitsVal(filename.month_text)
         IN  IF month < 1 \/ month > 12 THEN <<>> ELSE <<year, month>>

\* parsed_items.sort(key=lambda x: x[2]): a stable sort on the month
RECURSIVE insert_by_month(_, _)
insert_by_month(sorted, item) ==
    IF sorted = <<>> THEN <<item>>
    ELSE IF sorted[Len(sorted)].month <= item.month THEN Append(sorted, item)
    ELSE Append(insert_by_month(SubSeq(sorted, 1, Len(sorted) - 1), item),
                sorted[Len(sorted)])

RECURSIVE sort_by_month(_)
sort_by_month(items) ==
    IF items = <<>> THEN <<>>
    ELSE insert_by_month(sort_by_month(SubSeq(items, 1, Len(items) - 1)),
                         items[Len(items)])

\* lines 46-52: the files whose name gives a period, in arrival order
RECURSIVE parse_items(_, _)
parse_items(paths, i) ==
    IF i > Len(paths) THEN <<>>
    ELSE LET parsed == _parse_yyyymm_from_name(paths[i].name) IN
         (IF parsed = <<>> THEN <<>>
          ELSE <<[file |-> i, year |-> parsed[1], month |-> parsed[2]]>>)
         \o parse_items(paths, i + 1)

\* sorted(year_counts.keys())
RECURSIVE sorted_seq(_)
sorted_seq(S) ==
    IF S = {} THEN <<>>
    ELSE LET lo == CHOOSE x \in S : \A y \in S : x <= y
         IN  <<lo>> \o sorted_seq(S \ {lo})

\* variant: the first year is taken when the years are mixed
pick_target_year_first(ys) == <<ys[1]>>

\* line 58: the single year of the run, or None
pick_target_year(ys) == IF Len(ys) = 1 THEN <<ys[1]>> ELSE <<>>

\* str(row.get(col, "")).strip() if col else ""
cell_text(df, row, col) ==
    IF col \in df.cols THEN strip(str(row[col])) ELSE <<>>

\* row.get(col, "") if col else ""
cell_raw(df, row, col) ==
    IF col \in df.cols THEN row[col] ELSE <<>>

\* lines 102-110: <<>> when the row cannot be identified, else <<key>>
member_key(df, row) ==
    LET raw_id   == cell_text(df, row, "id")
        raw_name == cell_text(df, row, "name_kr")
    IN  IF raw_id # <<>> THEN <<raw_id>>
        ELSE IF raw_name # <<>> THEN <<raw_name>>
        ELSE <<>>

\* lines 122-130
new_base_info(df, row) ==
    [id      |-> cell_text(df, row, "id"),
     region  |-> cell_text(df, row, "region"),
     team    |-> cell_text(df, row, "team"),
     dept    |-> cell_text(df, row, "dept"),
     name_kr |-> cell_text(df, row, "name_kr"),
     name_ru |-> cell_text(df, row, "name_ru"),
     attend  |-> cell_text(df, row, "attend")]

\* lines 134-144
new_monthly_entry(df, row) ==
    LET tithe_val == cell_raw(df, row, "tithe")
        memo_val  == cell_raw(df, row, "memo")
    IN  [tithe   |-> IF ~isna(tithe_val) THEN tithe_val ELSE <<>>,
         memo    |-> IF ~isna(memo_val) THEN memo_val ELSE <<>>,
         is_paid |-> _parse_paid_amount(tithe_val)[1]]

\* d[k] = v on a dict
dict_set(d, k, v) == [x \in DOMAIN d \cup {k} |-> IF x = k THEN v ELSE d[x]]

empty_dict == [x \in {} |-> x]

\* variant: only the first observation writes the profile
is_newer_first_only(month, last_updated_month) == last_updated_month = 0

\* line 121
is_newer(month, last_updated_month) == month >= last_updated_month

\* variant: an existing entry of the month is kept
fold_row_keep_first(ps, key, month, df, row) ==
    LET p0 == IF key \in DOMAIN ps THEN ps[key]
              ELSE [base_info |-> empty_dict,
                    last_updated_month |-> 0,
                    monthly_data |-> empty_dict]
        p1 == IF is_newer(month, p0.last_updated_month)
              THEN [p0 EXCEPT !.base_info = new_base_info(df, row),
                              !.last_updated_month = month]
              ELSE p0
        p2 == IF month \in DOMAIN p1.monthly_data THEN p1
              ELSE [p1 EXCEPT !.monthly_data =
                       dict_set(p1.monthly_data, month, new_monthly_entry(df, row))]
    IN  dict_set(ps, key, p2)

\* variant: the member's record is set up anew on every row, and the stamp
\* is written for new members only
fold_row_reinit(ps, key, month, df, row) ==
    LET p0 == [base_info |-> empty_dict,
               last_updated_month |-> 0,
               monthly_data |-> IF key \in DOMAIN ps THEN ps[key].monthly_data
                                ELSE empty_dict]
        p1 == [p0 EXCEPT !.base_info = new_base_info(df, row),
                         !.last_updated_month =
                             IF key \in DOMAIN ps THEN 0 ELSE month]
        p2 == [p1 EXCEPT !.monthly_data =
                   dict_set(p1.monthly_data, month, new_monthly_entry(df, row))]
    IN  dict_set(ps, key, p2)

\* variant: the profile is written but its period is not stamped
fold_row_no_stamp(ps, key, month, df, row) ==
    LET p0 == IF key \in DOMAIN ps THEN ps[key]
              ELSE [base_info |-> empty_dict,
                    last_updated_month |-> 0,
                    monthly_data |-> empty_dict]
        p1 == IF is_newer(month, p0.last_updated_month)
              THEN [p0 EXCEPT !.base_info = new_base_info(df, row)]
              ELSE p0
        p2 == [p1 EXCEPT !.monthly_data =
                   dict_set(p1.monthly_data, month, new_monthly_entry(df, row))]
    IN  dict_set(ps, key, p2)

\* variant: the ledger of the member is started anew by every row
fold_row_reset_ledger(ps, key, month, df, row) ==
    LET p0 == IF key \in DOMAIN ps THEN ps[key]
              ELSE [base_info |-> empty_dict,
                    last_updated_month |-> 0,
                    monthly_data |-> empty_dict]
        p1 == IF is_newer(month, p0.last_updated_month)
              THEN [p0 EXCEPT !.base_info = new_base_info(df, row),
                              !.last_updated_month = month]
              ELSE p0
        p2 == [p1 EXCEPT !.monthly_data =
                   dict_set(empty_dict, month, new_monthly_entry(df, row))]
    IN  dict_set(ps, key, p2)

\* lines 113-144: fold one identified row of a file of period month
fold_row(ps, key, month, df, row) ==
    LET p0 == IF key \in DOMAIN ps THEN ps[key]
              ELSE [base_info |-> empty_dict,
                    last_updated_month |-> 0,
                    monthly_data |-> empty_dict]
        p1 == IF is_newer(month, p0.last_updated_month)
              THEN [p0 EXCEPT !.base_info = new_base_info(df, row),
                              !.last_updated_month = month]
              ELSE p0
        p2 == [p1 EXCEPT !.monthly_data =
                   dict_set(p1.monthly_data, month, new_monthly_entry(df, row))]
    IN  dict_set(ps, key, p2)

\* str.lower() on the letters the model's texts use
lower_char(c) ==
    CASE c = "A" -> "a" [] c = "B" -> "b" [] c = "K" -> "k" [] c = "L" -> "l"
      [] c = "M" -> "m" [] c = "N" -> "n" [] c = "S" -> "s" [] c = "X" -> "x"
      [] OTHER -> c

lower(s) == [i \in DOMAIN s |-> lower_char(s[i])]

\* the attendance-exemption marker looked for in base_info's attend text
EXEMPT == <<"X">>

\* lines 163-170: the member is left out of the table
skipped(base_info) ==
    \/ base_info.region = <<>>
    \/ lower(base_info.region) = <<"n", "a", "n">>
    \/ contains(base_info.attend, EXEMPT)

\* d[k] += 1 on a defaultdict(int)
dict_inc(d, k) == dict_set(d, k, (IF k \in DOMAIN d THEN d[k] ELSE 0) + 1)

\* d[region][m] += 1 on a defaultdict of defaultdicts
dict_inc2(d, region, m) ==
    dict_set(d, region,
             dict_inc(IF region \in DOMAIN d THEN d[region] ELSE empty_dict, m))

\* variant: every month of the year counts the member (a fixed yearly roll)
RECURSIVE count_months_every_month(_, _, _)
count_months_every_month(acc, data, m) ==
    IF m > 12 THEN acc
    ELSE LET region == data.base_info.region
             acc1 == [totals |-> dict_inc2(acc.totals, region, m),
                      paid_counts |->
                          IF m \in DOMAIN data.monthly_data
                             /\ data.monthly_data[m].is_paid
                          THEN dict_inc2(acc.paid_counts, region, m)
                          ELSE acc.paid_counts]
         IN  count_months_every_month(acc1, data, m + 1)

\* lines 172-197: the months 1..12 of one member, from month m on
RECURSIVE count_months(_, _, _)
count_months(acc, data, m) ==
    IF m > 12 THEN acc
    ELSE LET region == data.base_info.region
             acc1 == IF m \in DOMAIN data.monthly_data
                     THEN [totals |-> dict_inc2(acc.totals, region, m),
                           paid_counts |->
                               IF data.monthly_data[m].is_paid
                               THEN dict_inc2(acc.paid_counts, region, m)
                               ELSE acc.paid_counts]
                     ELSE acc
         IN  count_months(acc1, data, m + 1)

\* lines 159-197: the loop over persons.items()
RECURSIVE count_persons(_, _, _)
count_persons(acc, ps, keys) ==
    IF keys = {} THEN acc
    ELSE LET key == CHOOSE k \in keys : TRUE
             acc1 == IF skipped(ps[key].base_info) THEN acc
                     ELSE count_months(acc, ps[key], 1)
         IN  count_persons(acc1, ps, keys \ {key})

\* d.get(k, 0)
dict_get0(d, k) == IF k \in DOMAIN d THEN d[k] ELSE 0

dict_get2(d, region, m) ==
    IF region \in DOMAIN d THEN dict_get0(d[region], m) ELSE 0

\* round(x, 1) in tenths, for the double x computed for n / d tenths
\* (n >= 0, d > 0): the nearest tenth.  When n / d lies halfway between two
\* tenths the rounding errors of the double arithmetic decide the side, and
\* both neighbours are results.
round_tenths(n, d) ==
    LET q == n \div d
        r == n % d
    IN  IF 2 * r < d THEN {q}
        ELSE IF 2 * r > d THEN {q + 1}
        ELSE {q, q + 1}

RECURSIVE sum_over(_, _)
sum_over(f, S) ==
    IF S = {} THEN 0
    ELSE LET x == CHOOSE y \in S : TRUE IN f[x] + sum_over(f, S \ {x})

Months == 1..12

\* lines 207-209: the ratio of one month, in tenths of a percent
ratio_of(acc, region, m) ==
    LET total == dict_get2(acc.totals, region, m)
        paid  == dict_get2(acc.paid_counts, region, m)
    IN  IF total # 0 THEN round_tenths(paid * 1000, total) ELSE {0}

\* lines 206-210: the ratios of the months 1..m of a region
RECURSIVE ratio_choices(_, _, _)
ratio_choices(acc, region, m) ==
    IF m = 0 THEN {<<>>}
    ELSE {Append(r, x) : r \in ratio_choices(acc, region, m - 1),
                         x \in ratio_of(acc, region, m)}

\* variant: a month without members enters the average as 0 percent
region_rows_all_periods(acc, region) ==
    UNION {{[ratio |-> ratio, avg |-> avg] :
               avg \in round_tenths(sum_over(ratio, Months), 12)} :
           ratio \in ratio_choices(acc, region, 12)}

\* lines 202-215: one region's row
region_rows(acc, region) ==
    LET counted == {m \in Months : dict_get2(acc.totals, region, m) # 0} IN
    UNION {{[ratio |-> ratio, avg |-> avg] :
               avg \in IF counted # {}
                       THEN round_tenths(sum_over(ratio, counted), Cardinality(counted))
                       ELSE {0}} :
           ratio \in ratio_choices(acc, region, 12)}

\* lines 202-215: the rows of the regions, keyed by region (their order,
\* sorted by region text, is not modelled)
RECURSIVE row_choices(_, _)
row_choices(acc, regions) ==
    IF regions = {} THEN {empty_dict}
    ELSE LET g == CHOOSE x \in regions : TRUE IN
         {dict_set(rows, g, row) : rows \in row_choices(acc, regions \ {g}),
                                   row \in region_rows(acc, g)}

\* variant: a region whose displayed ratio is 0.0 is left out of the mean
RECURSIVE column_means_nonzero(_, _)
column_means_nonzero(rows, m) ==
    IF m = 0 THEN {<<>>}
    ELSE LET held == {g \in DOMAIN rows : rows[g].ratio[m] # 0} IN
         {Append(r, x) :
             r \in column_means_nonzero(rows, m - 1),
             x \in IF held = {} THEN {0}
                   ELSE round_tenths(sum_over([g \in held |-> rows[g].ratio[m]], held),
                                     Cardinality(held))}

\* lines 225-234: the summary values of the months 1..m
RECURSIVE column_means(_, _)
column_means(rows, m) ==
    IF m = 0 THEN {<<>>}
    ELSE {Append(r, x) :
             r \in column_means(rows, m - 1),
             x \in round_tenths(sum_over([g \in DOMAIN rows |-> rows[g].ratio[m]],
                                         DOMAIN rows),
                                Cardinality(DOMAIN rows))}

\* lines 223-237: the summary row, column means over the region rows
summary_rows(rows) ==
    {[ratio |-> ratio, avg |-> avg] :
        ratio \in column_means(rows, 12),
        avg \in round_tenths(sum_over([g \in DOMAIN rows |-> rows[g].avg], DOMAIN rows),
                             Cardinality(DOMAIN rows))}

\* the empty DataFrame
EmptyTable == [rows |-> empty_dict, summary |-> <<>>]

\* lines 199-240: the table of the counted totals
tables_of(acc) ==
    IF DOMAIN acc.totals = {} THEN {EmptyTable}
    ELSE UNION {{[rows |-> rows, summary |-> <<summary>>] :
                    summary \in summary_rows(rows)} :
                rows \in row_choices(acc, DOMAIN acc.totals)}

\* totals of lines 156-197, kept beside the table for the statistics claims
build_totals(ps) ==
    count_persons([totals |-> empty_dict, paid_counts |-> empty_dict], ps, DOMAIN ps)

\* lines 151-240
build_tables(ps) ==
    IF DOMAIN ps = {} THEN {EmptyTable} ELSE tables_of(build_totals(ps))

\* ----------------------------------------------------- header normalization
\* Characters that are not ASCII are written as one-element tokens: "BOM" is
\* U+FEFF, "ZWSP" is U+200B, "NBSP" is U+00A0, "TAB" is the tabulator.
\* The label "cg" stands for the attendance word and "cgyb" for the canonical
\* attendance column name.
Whitespace == {" ", "TAB", "NBSP"}

RECURSIVE remove_whitespace(_)
remove_whitespace(s) ==
    IF s = <<>> THEN <<>>
    ELSE (IF Head(s) \in Whitespace THEN <<>> ELSE <<Head(s)>>)
             \o remove_whitespace(Tail(s))

RECURSIVE lstrip_ws(_)
lstrip_ws(s) == IF s # <<>> /\ Head(s) \in Whitespace THEN lstrip_ws(Tail(s)) ELSE s

RECURSIVE rstrip_ws(_)
rstrip_ws(s) ==
    IF s # <<>> /\ s[Len(s)] \in Whitespace
    THEN rstrip_ws(SubSeq(s, 1, Len(s) - 1)) ELSE s

\* variant: the ends are trimmed before the invisible characters are removed,
\* and inner whitespace stays
normalize_header_text_trim_first(value) ==
    LET text0 == rstrip_ws(lstrip_ws(str(value)))
        text1 == replace(text0, "BOM", <<>>)
        text2 == replace(text1, "ZWSP", <<>>)
    IN  replace(text2, "NBSP", <<" ">>)

\* utils/excel_utils.py normalize_header_text
normalize_header_text(value) ==
    LET text0 == replace(str(value), "BOM", <<>>)
        text1 == replace(text0, "ZWSP", <<>>)
        text2 == replace(text1, "NBSP", <<" ">>)
    IN  remove_whitespace(text2)

ATTEND_WORD == <<"c", "g">>

ATTEND_COLUMN == <<"c", "g", "y", "b">>

\* utils/excel_utils.py normalize_columns, for one column label
normalize_column(col) ==
    LET text0 == replace(str(col), "BOM", <<>>)
        text1 == replace(text0, "ZWSP", <<>>)
        text2 == replace(text1, "NBSP", <<" ">>)
        text3 == rstrip_ws(lstrip_ws(text2))
    IN  IF contains(text3, ATTEND_WORD) /\ ~contains(text3, ATTEND_COLUMN)
        THEN ATTEND_COLUMN ELSE text3

normalize_columns(cols) == [i \in DOMAIN cols |-> normalize_column(cols[i])]

\* utils/excel_utils.py find_col_by_keyword: <<>> for None, else <<col>>;
\* exclude is <<>> for None, else <<text>>
RECURSIVE find_col_by_keyword(_, _, _)
find_col_by_keyword(columns, keyword, exclude) ==
    IF columns = <<>> THEN <<>>
    ELSE LET text == str(Head(columns)) IN
         IF ~contains(text, keyword)
         THEN find_col_by_keyword(Tail(columns), keyword, exclude)
         ELSE IF exclude # <<>> /\ exclude[1] # <<>> /\ contains(text, exclude[1])
         THEN find_col_by_keyword(Tail(columns), keyword, exclude)
         ELSE <<Head(columns)>>

\* ----------------------------------------------------- utils/validators.py
\* required_aliases.get(required, [normalize_header_text(required)])
candidates_of(required, required_aliases) ==
    IF required \in DOMAIN required_aliases THEN required_aliases[required]
    ELSE <<normalize_header_text(required)>>

\* {normalize_header_text(col): col for col in source_cols}: a later column of
\* the same normalized label replaces the earlier one
normalized_cols(cols) ==
    LET keys == {normalize_header_text(cols[i]) : i \in DOMAIN cols} IN
    [k \in keys |->
        cols[CHOOSE i \in DOMAIN cols :
                /\ normalize_header_text(cols[i]) = k
                /\ \A j \in DOMAIN cols :
                       normalize_header_text(cols[j]) = k => j <= i]]

\* the first candidate that is a key of normalized_cols: <<>> or <<col>>
RECURSIVE find_candidate(_, _)
find_candidate(candidates, ncols) ==
    IF candidates = <<>> THEN <<>>
    ELSE IF Head(candidates) \in DOMAIN ncols THEN <<ncols[Head(candidates)]>>
    ELSE find_candidate(Tail(candidates), ncols)

\* the loop over required_columns, from position n on; "not found" is also
\* true of a found column whose name is the empty text
RECURSIVE rename_loop(_, _, _, _, _)
rename_loop(acc, n, ncols, required_columns, required_aliases) ==
    IF n > Len(required_columns) THEN acc
    ELSE LET required == required_columns[n]
             found == find_candidate(candidates_of(required, required_aliases), ncols)
             acc1  == IF found = <<>> \/ found[1] = <<>>
                      THEN [acc EXCEPT !.missing = Append(acc.missing, required)]
                      ELSE [acc EXCEPT !.rename_map =
                                dict_set(acc.rename_map, found[1], required)]
         IN  rename_loop(acc1, n + 1, ncols, required_columns, required_aliases)

build_rename_map(cols, required_columns, required_aliases) ==
    LET source_cols == normalize_columns(cols) IN
    [columns |-> source_cols,
     rename_map |-> rename_loop([rename_map |-> empty_dict, missing |-> <<>>], 1,
                                normalized_cols(source_cols), required_columns,
                                required_aliases).rename_map,
     missing |-> rename_loop([rename_map |-> empty_dict, missing |-> <<>>], 1,
                             normalized_cols(source_cols), required_columns,
                             required_aliases).missing]

Max(a, b) == IF a >= b THEN a ELSE b

Min(a, b) == IF a <= b THEN a ELSE b

\* range(min(len(df_preview), 100))
SCAN_ROWS == 100

\* the number of required fields one of whose candidates is a value of the row
row_hits(row, required_columns, required_aliases) ==
    LET row_values == {normalize_header_text(row[c]) : c \in DOMAIN row}
        Hit(n) == \E m \in DOMAIN candidates_of(required_columns[n], required_aliases) :
                      candidates_of(required_columns[n], required_aliases)[m] \in row_values
    IN  Cardinality({n \in DOMAIN required_columns : Hit(n)})

\* the loop of detect_header_row from row idx on (rows are numbered from 0);
\* header_row is <<>> for None
RECURSIVE detect_loop(_, _, _, _, _, _)
detect_loop(idx, header_row, best_hits, preview, required_columns, required_aliases) ==
    IF idx >= Min(Len(preview), SCAN_ROWS)
    THEN [header_row |-> header_row, best_hits |-> best_hits]
    ELSE LET hits == row_hits(preview[idx + 1], required_columns, required_aliases)
             better == hits > best_hits
             row1  == IF better THEN <<idx>> ELSE header_row
             best1 == IF better THEN hits ELSE best_hits
         IN  IF hits >= Max(2, Len(required_columns) \div 2)
             THEN [header_row |-> row1, best_hits |-> best1]
             ELSE detect_loop(idx + 1, row1, best1, preview, required_columns,
                              required_aliases)

detect_header_row(preview, required_columns, required_aliases) ==
    LET end == detect_loop(0, <<>>, 0, preview, required_columns, required_aliases)
    IN  IF end.best_hits >= 2 THEN end.header_row ELSE <<>>

\* ------------------------------------------------------ utils/text_parser.py
\* the letters of the model's lines
Letters == {"I", "v", "P", "x"}

isdigit(c) == c \in Digits

has_digit(token) == \E k \in DOMAIN token : isdigit(token[k])

\* s.split(sep) for a one-character sep: at least one part
RECURSIVE split(_, _)
split(s, sep) ==
    IF \A k \in DOMAIN s : s[k] # sep THEN <<s>>
    ELSE LET k == CHOOSE j \in DOMAIN s :
                      s[j] = sep /\ \A h \in 1..(j - 1) : s[h] # sep
         IN  <<SubSeq(s, 1, k - 1)>> \o split(SubSeq(s, k + 1, Len(s)), sep)

\* s.split(): the runs of characters between spaces
split_whitespace(s) ==
    LET NonEmpty(part) == part # <<>> IN SelectSeq(split(s, " "), NonEmpty)

\* " ".join(tokens)
RECURSIVE join(_)
join(tokens) ==
    IF tokens = <<>> THEN <<>>
    ELSE IF Len(tokens) = 1 THEN tokens[1]
    ELSE tokens[1] \o <<" ">> \o join(Tail(tokens))

\* re.sub(r"[^0-9,.\-]", "", val)
RECURSIVE keep_amount_chars(_)
keep_amount_chars(s) ==
    IF s = <<>> THEN <<>>
    ELSE (IF Head(s) \in Digits \cup {",", ".", "-"} THEN <<Head(s)>> ELSE <<>>)
             \o keep_amount_chars(Tail(s))

Zero == Number([num |-> 0, den |-> 1])

\* float(val), or 0.0 on ValueError
_clean_amount_str(val) ==
    IF val = <<>> THEN Zero
    ELSE LET text == replace(keep_amount_chars(val), ",", <<".">>) IN
         IF IsDecimal(text) THEN Number(DecimalValue(text)) ELSE Zero

\* PATTERN_VALID_UID: 8 digits, a hyphen, 5 digits
UidAt(s, from) ==
    /\ from + 13 <= Len(s)
    /\ \A k \in 0..7 : isdigit(s[from + k])
    /\ s[from + 8] = "-"
    /\ \A k \in 9..13 : isdigit(s[from + k])

_is_valid_uid_format(uid) == Len(uid) = 14 /\ UidAt(uid, 1)

\* the three results of _parse_line_logic are optional: <<>> is None
NoRecord == [uid |-> <<>>, name |-> <<>>, amount |-> <<>>]

\* variant: the first token of the candidates that holds a digit
RECURSIVE first_amount(_)
first_amount(amount_candidates) ==
    IF amount_candidates = <<>> THEN <<>>
    ELSE IF has_digit(Head(amount_candidates))
    THEN <<_clean_amount_str(Head(amount_candidates))>>
    ELSE first_amount(Tail(amount_candidates))

\* the last token of the candidates that holds a digit, cleaned: <<>> or <<v>>
RECURSIVE last_amount(_)
last_amount(amount_candidates) ==
    IF amount_candidates = <<>> THEN <<>>
    ELSE LET token == amount_candidates[Len(amount_candidates)] IN
         IF has_digit(token) THEN <<_clean_amount_str(token)>>
         ELSE last_amount(SubSeq(amount_candidates, 1, Len(amount_candidates) - 1))

\* strategy 1: the position of the identifier among the parts, 0 for none
uid_position(parts) ==
    IF Len(parts) >= 1 /\ _is_valid_uid_format(parts[1]) THEN 1
    ELSE IF Len(parts) >= 2 /\ _is_valid_uid_format(parts[2]) THEN 2
    ELSE IF Len(parts) >= 1 /\ has_digit(parts[1]) THEN 1
    ELSE IF Len(parts) >= 2 /\ has_digit(parts[2]) THEN 2
    ELSE 0

\* strategy 1 on a stripped line that holds "/": NoRecord when no identifier
parse_delimited(line) ==
    LET raw   == split(line, "/")
        parts == [k \in DOMAIN raw |-> strip(raw[k])]
        pos   == uid_position(parts)
        amount == last_amount(SubSeq(parts, pos + 2, Len(parts)))
    IN  IF pos = 0 THEN NoRecord
        ELSE [uid |-> <<parts[pos]>>,
              name |-> IF Len(parts) > pos THEN <<parts[pos + 1]>> ELSE <<>>,
              amount |-> IF amount # <<>> THEN amount ELSE <<Zero>>]

\* the classes of PATTERN_RUSSIAN_BOUNDARY: [letters\s] and [\d\s.,]
NameClass == Letters \cup {" "}

AmountClass == Digits \cup {" ", ".", ","}

\* the characters of s from position x up to, not including, position y
AllIn(s, x, y, class) == \A k \in x..(y - 1) : s[k] \in class

\* \s+([letters\s]+?)\s+([\d\s.,]+)$ from position a on: the triples <<b, c, d>>
\* where the name starts at b, ends before c, and the amount starts at d
boundary_rest(s, a) ==
    UNION {UNION {{<<b, c, d>> :
                      d \in {e \in (c + 1)..Len(s) :
                                /\ AllIn(s, c, e, {" "})
                                /\ AllIn(s, e, Len(s) + 1, AmountClass)}} :
                  c \in {e \in (b + 1)..Len(s) : AllIn(s, b, e, NameClass)}} :
           b \in {e \in (a + 1)..Len(s) : AllIn(s, a, e, {" "})}}

\* the match the regex engine keeps among the triples: \s+ greedy, the name
\* lazy, \s+ greedy
boundary_pick(rest) ==
    LET bs == {t[1] : t \in rest}
        b  == CHOOSE x \in bs : \A y \in bs : y <= x
        cs == {t[2] : t \in {u \in rest : u[1] = b}}
        c  == CHOOSE x \in cs : \A y \in cs : x <= y
        ds == {t[3] : t \in {u \in rest : u[1] = b /\ u[2] = c}}
        d  == CHOOSE x \in ds : \A y \in ds : y <= x
    IN  <<b, c, d>>

\* (\d{8}-\d{5}|\d+) at position i: the ends of group 1 from which the rest
\* of the pattern matches
boundary_ends(s, i) ==
    {a \in (i + 1)..(Len(s) + 1) :
        /\ (a = i + 14 /\ UidAt(s, i)) \/ AllIn(s, i, a, Digits)
        /\ boundary_rest(s, a) # {}}

\* the end the engine keeps: the first alternative, else the longest run
boundary_end(s, i) ==
    IF UidAt(s, i) /\ (i + 14) \in boundary_ends(s, i) THEN i + 14
    ELSE LET runs == {a \in boundary_ends(s, i) : AllIn(s, i, a, Digits)}
         IN  CHOOSE a \in runs : \A y \in runs : y <= a

\* PATTERN_RUSSIAN_BOUNDARY.search(line): <<>> or the three groups
boundary_search(s) ==
    LET starts == {i \in DOMAIN s : isdigit(s[i]) /\ boundary_ends(s, i) # {}} IN
    IF starts = {} THEN <<>>
    ELSE LET i == CHOOSE x \in starts : \A y \in starts : x <= y
             a == boundary_end(s, i)
             t == boundary_pick(boundary_rest(s, a))
         IN  <<[uid |-> SubSeq(s, i, a - 1),
                name |-> SubSeq(s, t[1], t[2] - 1),
                amount_str |-> SubSeq(s, t[3], Len(s))]>>

\* strategy 3 on the tokens of the line
parse_tokens(tokens) ==
    LET last_token == tokens[Len(tokens)] IN
    IF Len(tokens) >= 3 /\ AllIn(last_token, 1, Len(last_token) + 1, AmountClass)
    THEN IF Len(tokens) >= 4 /\ has_digit(tokens[2])
         THEN [uid |-> <<tokens[2]>>,
               name |-> <<join(SubSeq(tokens, 3, Len(tokens) - 1))>>,
               amount |-> <<_clean_amount_str(last_token)>>]
         ELSE IF has_digit(tokens[1])
         THEN [uid |-> <<tokens[1]>>,
               name |-> <<join(SubSeq(tokens, 2, Len(tokens) - 1))>>,
               amount |-> <<_clean_amount_str(last_token)>>]
         ELSE NoRecord
    ELSE NoRecord

_parse_line_logic(raw_line) ==
    LET line      == strip(raw_line)
        delimited == IF contains(line, <<"/">>) THEN parse_delimited(line)
                     ELSE NoRecord
        match     == boundary_search(line)
    IN  IF line = <<>> THEN NoRecord
        ELSE IF delimited.uid # <<>> THEN delimited
        ELSE IF match # <<>>
        THEN [uid |-> <<match[1].uid>>,
              name |-> <<strip(match[1].name)>>,
              amount |-> <<_clean_amount_str(match[1].amount_str)>>]
        ELSE parse_tokens(split_whitespace(line))

\* =================================================================== state
VARIABLES
    \* amount functions applied to a drawn series of cells
    series, clean_out, vec_out, paid_out, apc,
    \* build_annual_region_table(file_paths)
    file_paths, parsed_items, years, target_year, persons, fi, ri, opened,
    result, pc,
    \* history: the <<file, row>> places of the rows folded so far, in order
    folded,
    \* merge_file_items(file_items) and compute_merge_views(raw_df)
    file_items, raw_df, duplicate_report_view, merged_view, mpc,
    \* run_subfolder_merge(subfolders, max_workers)
    subfolders, folder_state, max_workers, overwrite_checked, futures,
    collected, written, saved, results, status_rows, bpc,
    \* build_rename_map, find_col_by_keyword and detect_header_row
    source_cols, required_aliases, keyword, exclude, rename_out, find_out,
    df_preview, header_out, header_keys, spc,
    \* _parse_line_logic and parse_txt_to_df
    lines, parsed_lines, txt_df, tpc,
    \* the table part of build_annual_region_table on drawn counts
    counts, table_out, tbpc

varsAmount == <<series, clean_out, vec_out, paid_out, apc>>

varsAnnual == <<file_paths, parsed_items, years, target_year, persons, fi, ri,
                opened, result, pc, folded>>

varsMerge == <<file_items, raw_df, duplicate_report_view, merged_view, mpc>>

varsBatch == <<subfolders, folder_state, max_workers, overwrite_checked,
               futures, collected, written, saved, results, status_rows, bpc>>

varsSchema == <<source_cols, required_aliases, keyword, exclude, rename_out,
                find_out, df_preview, header_out, header_keys, spc>>

varsParser == <<lines, parsed_lines, txt_df, tpc>>

varsTable == <<counts, table_out, tbpc>>

vars == <<varsAmount, varsAnnual, varsMerge, varsBatch, varsSchema, varsParser,
          varsTable>>

\* the parts of the state a specification does not use stay as they start
IdleAmount ==
    /\ series = <<>>
    /\ clean_out = <<>>
    /\ vec_out = <<>>
    /\ paid_out = <<>>
    /\ apc = "idle"

IdleAnnual ==
    /\ file_paths = <<>>
    /\ parsed_items = <<>>
    /\ years = <<>>
    /\ target_year = <<>>
    /\ persons = empty_dict
    /\ fi = 0
    /\ ri = 0
    /\ opened = {}
    /\ result = <<>>
    /\ pc = "idle"
    /\ folded = <<>>

IdleMerge ==
    /\ file_items = <<>>
    /\ raw_df = <<>>
    /\ duplicate_report_view = <<>>
    /\ merged_view = <<>>
    /\ mpc = "idle"

IdleBatch ==
    /\ subfolders = {}
    /\ folder_state = <<>>
    /\ max_workers = 0
    /\ overwrite_checked = FALSE
    /\ futures = <<>>
    /\ collected = {}
    /\ written = {}
    /\ saved = 0
    /\ results = <<>>
    /\ status_rows = <<>>
    /\ bpc = "idle"

IdleSchema ==
    /\ source_cols = <<>>
    /\ required_aliases = empty_dict
    /\ keyword = <<>>
    /\ exclude = <<>>
    /\ rename_out = <<>>
    /\ find_out = <<>>
    /\ df_preview = <<>>
    /\ header_out = <<>>
    /\ header_keys = <<>>
    /\ spc = "idle"

IdleParser ==
    /\ lines = <<>>
    /\ parsed_lines = <<>>
    /\ txt_df = <<>>
    /\ tpc = "idle"

IdleTable ==
    /\ counts = <<>>
    /\ table_out = <<>>
    /\ tbpc = "idle"

\* ------------------------------------------------ amount functions harness
AmountChars == {"0", "1", "5", ",", ".", " ", "-", "a"}

RECURSIVE TextsUpTo(_)
TextsUpTo(n) ==
    IF n = 0 THEN {<<>>}
    ELSE LET shorter == TextsUpTo(n - 1) IN
         shorter \cup {Append(t, c) : t \in {x \in shorter : Len(x) = n - 1},
                                      c \in AmountChars}

AmountCells == TextsUpTo(MaxLen) \cup {NaNCell}

InitAmount ==
    /\ series \in {<<>>} \cup {<<c>> : c \in AmountCells}
    /\ clean_out = <<>>
    /\ vec_out = <<>>
    /\ paid_out = <<>>
    /\ apc = "clean"
    /\ IdleAnnual
    /\ IdleMerge
    /\ IdleBatch
    /\ IdleSchema
    /\ IdleParser
    /\ IdleTable

ApplyCleanAmount ==
    /\ apc = "clean"
    /\ clean_out' = [i \in DOMAIN series |-> clean_amount(series[i])]
    /\ apc' = "vectorized"
    /\ UNCHANGED <<series, vec_out, paid_out, varsAnnual, varsMerge, varsBatch,
                   varsSchema, varsParser, varsTable>>

ApplyCleanAmountVectorized ==
    /\ apc = "vectorized"
    /\ vec_out' = clean_amount_vectorized(series)
    /\ apc' = "paid"
    /\ UNCHANGED <<series, clean_out, paid_out, varsAnnual, varsMerge, varsBatch,
                   varsSchema, varsParser, varsTable>>

ApplyParsePaidAmount ==
    /\ apc = "paid"
    /\ paid_out' = [i \in DOMAIN series |-> _parse_paid_amount(series[i])]
    /\ apc' = "done"
    /\ UNCHANGED <<series, clean_out, vec_out, varsAnnual, varsMerge, varsBatch,
                   varsSchema, varsParser, varsTable>>

NextAmount ==
    \/ ApplyCleanAmount
    \/ ApplyCleanAmountVectorized
    \/ ApplyParsePaidAmount

SpecAmount == InitAmount /\ [][NextAmount]_vars

\* ------------------------------------------------- annual merge: the inputs
\* file names: 2024.01, 24.02, 2024.03, 2025.01, 2024.13 and a name with no period
Name_2024_01 == [year_text |-> <<"2", "0", "2", "4">>, month_text |-> <<"0", "1">>]

Name_24_02 == [year_text |-> <<"2", "4">>, month_text |-> <<"0", "2">>]

Name_2024_03 == [year_text |-> <<"2", "0", "2", "4">>, month_text |-> <<"0", "3">>]

Name_2025_01 == [year_text |-> <<"2", "0", "2", "5">>, month_text |-> <<"0", "1">>]

Name_2024_13 == [year_text |-> <<"2", "0", "2", "4">>, month_text |-> <<"1", "3">>]

FileNames == {Name_2024_01, Name_24_02, Name_2024_03, Name_2025_01, Name_2024_13,
              NoMatch}

AllCols == {"id", "region", "team", "dept", "name_kr", "name_ru", "attend",
            "tithe", "memo"}

mk_row(id, name_kr, region, team, dept, name_ru, attend, tithe, memo) ==
    [id |-> id, name_kr |-> name_kr, region |-> region, team |-> team,
     dept |-> dept, name_ru |-> name_ru, attend |-> attend, tithe |-> tithe,
     memo |-> memo]

\* member A in region S, paid
RowA1 == mk_row(<<"A">>, <<"K">>, <<"S">>, <<"T">>, <<"D">>, <<"k">>, <<>>,
                <<"1">>, <<>>)

\* member A moved to region M, exempt from attendance, amount zero
RowA2 == mk_row(<<" ", "A", " ">>, <<"K">>, <<"M">>, <<"U">>, <<"E">>, <<"k">>,
                <<"X", "!">>, <<"0">>, <<"m">>)

\* member A with blank attributes (empty texts and null cells) and no amount
RowA3 == mk_row(<<"A">>, <<>>, NaNCell, <<>>, <<" ">>, <<>>, NaNCell, NaNCell,
                NaNCell)

\* blank identifier text: the display name is the key; a memo for an amount
RowK1 == mk_row(<<" ">>, <<" ", "K">>, <<"S">>, <<"T">>, <<"D">>, <<"k">>, <<>>,
                <<"a">>, <<>>)

\* the identifier cell is null (a blank spreadsheet cell); blank region
RowK2 == mk_row(NaNCell, <<"K">>, <<" ">>, <<"T">>, <<"D">>, <<"k">>, <<>>,
                <<"1">>, <<>>)

\* neither an identifier nor a name: empty texts
RowU1 == mk_row(<<>>, <<" ">>, <<"S">>, <<"T">>, <<"D">>, <<>>, <<>>, <<"1">>, <<>>)

\* neither an identifier nor a name: null cells
RowU2 == mk_row(NaNCell, NaNCell, <<"S">>, <<"T">>, <<"D">>, <<>>, <<>>, <<"1">>,
                <<>>)

\* member B in region S, a bare dash as amount
RowB1 == mk_row(<<"B">>, <<"L">>, <<"S">>, <<"T">>, <<"D">>, <<"l">>, <<>>,
                <<"-">>, <<>>)

\* member B in region S, amount zero
RowB2 == mk_row(<<"B">>, <<"L">>, <<"S">>, <<"T">>, <<"D">>, <<"l">>, <<>>,
                <<"0">>, <<>>)

Frames ==
    {[cols |-> AllCols, rows |-> rows] :
        rows \in {<<>>, <<RowA1>>, <<RowA2>>, <<RowA3>>, <<RowK1, RowU1>>,
                  <<RowK2, RowU2>>, <<RowA1, RowB1>>, <<RowB2>>}}
    \cup {[cols |-> AllCols \ {"id"}, rows |-> <<RowA1>>]}

\* every frame under the 2024 names; two frames under the 2025 name; the
\* names that give no period are never opened and carry one frame.  io is
\* what reading the file does: "ok", "OSError" (open() fails) or
\* "undecodable" (read_excel_smart_bytes and the pd.read_excel fallback of
\* load_report_source both raise)
Files ==
    {[name |-> n, df |-> d, io |-> "ok"] :
        n \in {Name_2024_01, Name_24_02, Name_2024_03}, d \in Frames}
    \cup {[name |-> Name_2025_01, df |-> [cols |-> AllCols, rows |-> rows],
           io |-> "ok"] :
            rows \in {<<RowA1>>, <<RowA2>>}}
    \cup {[name |-> n, df |-> [cols |-> AllCols, rows |-> <<RowA1>>],
           io |-> "ok"] :
            n \in {Name_2024_13, NoMatch}}
    \cup {[name |-> Name_24_02, df |-> [cols |-> AllCols, rows |-> <<RowA2>>],
           io |-> "OSError"],
          [name |-> Name_2024_03, df |-> [cols |-> AllCols, rows |-> <<RowA3>>],
           io |-> "undecodable"]}

RECURSIVE SeqsUpTo(_, _)
SeqsUpTo(S, n) ==
    IF n = 0 THEN {<<>>}
    ELSE LET shorter == SeqsUpTo(S, n - 1) IN
         shorter \cup {Append(t, x) : t \in {y \in shorter : Len(y) = n - 1}, x \in S}

InitAnnual ==
    /\ file_paths \in SeqsUpTo(Files, MaxFiles)
    /\ parsed_items = <<>>
    /\ years = <<>>
    /\ target_year = <<>>
    /\ persons = empty_dict
    /\ fi = 0
    /\ ri = 0
    /\ opened = {}
    /\ result = <<>>
    /\ pc = "collect"
    /\ folded = <<>>
    /\ IdleAmount
    /\ IdleMerge
    /\ IdleBatch
    /\ IdleSchema
    /\ IdleParser
    /\ IdleTable

\* ------------------------------------------------ annual merge: the actions
\* lines 43-77: parse the names, the year guard, the sort
CollectStart ==
    /\ pc = "collect"
    /\ LET items == parse_items(file_paths, 1)
           ys    == sorted_seq({items[i].year : i \in DOMAIN items})
       IN  IF items = <<>>
           THEN /\ parsed_items' = <<>>
                /\ years' = <<>>
                /\ target_year' = <<>>
                /\ pc' = "build"
           ELSE IF pick_target_year(ys) = <<>>
           THEN /\ parsed_items' = items
                /\ years' = ys
                /\ target_year' = <<>>
                /\ pc' = "build"
           ELSE /\ parsed_items' = sort_by_month(items)
                /\ years' = ys
                /\ target_year' = pick_target_year(ys)
                /\ pc' = "files"
    /\ fi' = 1
    /\ UNCHANGED <<file_paths, persons, ri, opened, result, folded, varsAmount, varsMerge, varsBatch,
                   varsSchema, varsParser, varsTable>>

\* lines 79-86: the next file of the loop is opened and loaded; neither
\* open() nor load_report_source is inside a try, so their exception leaves
\* the function
NextFile ==
    /\ pc = "files"
    /\ IF fi > Len(parsed_items)
       THEN /\ pc' = "build"
            /\ UNCHANGED <<fi, ri, opened>>
       ELSE LET item == parsed_items[fi] IN
            IF <<item.year>> # target_year
            THEN /\ fi' = fi + 1
                 /\ UNCHANGED <<pc, ri, opened>>
            ELSE /\ opened' = opened \cup {item.file}
                 /\ IF file_paths[item.file].io # "ok"
                    THEN /\ pc' = "raised"
                         /\ UNCHANGED <<fi, ri>>
                    ELSE IF file_paths[item.file].df.rows = <<>>
                    THEN /\ fi' = fi + 1
                         /\ UNCHANGED <<pc, ri>>
                    ELSE /\ pc' = "rows"
                         /\ ri' = 1
                         /\ fi' = fi
    /\ UNCHANGED <<file_paths, parsed_items, years, target_year, persons, result,
                   folded, varsAmount, varsMerge, varsBatch,
                   varsSchema, varsParser, varsTable>>

\* lines 100-144: one row of the current file
FoldRow ==
    /\ pc = "rows"
    /\ LET item == parsed_items[fi]
           df   == file_paths[item.file].df
           row  == df.rows[ri]
           key  == member_key(df, row)
       IN  /\ persons' = IF key = <<>> THEN persons
                         ELSE fold_row(persons, key[1], item.month, df, row)
           /\ folded' = Append(folded, <<item.file, ri>>)
           /\ IF ri = Len(df.rows)
              THEN /\ pc' = "files"
                   /\ fi' = fi + 1
                   /\ ri' = 0
              ELSE /\ ri' = ri + 1
                   /\ UNCHANGED <<pc, fi>>
    /\ UNCHANGED <<file_paths, parsed_items, years, target_year, opened, result,
                   varsAmount, varsMerge, varsBatch,
                   varsSchema, varsParser, varsTable>>

\* lines 149-240: build_annual_region_table's own part, and its return
BuildTable ==
    /\ pc = "build"
    /\ \E table \in build_tables(persons) :
           result' = <<[table |-> table,
                        totals |-> build_totals(persons),
                        target_year |-> target_year,
                        years |-> years]>>
    /\ pc' = "done"
    /\ UNCHANGED <<file_paths, parsed_items, years, target_year, persons, fi, ri,
                   opened, folded, varsAmount, varsMerge, varsBatch,
                   varsSchema, varsParser, varsTable>>

NextAnnual ==
    \/ CollectStart
    \/ NextFile
    \/ FoldRow
    \/ BuildTable

SpecAnnual == InitAnnual /\ [][NextAnnual]_vars

\* ------------------------------------------------ services/merge_service.py
\* variant: the last non-null value of the column (last wins)
RECURSIVE last_non_null(_, _, _)
last_non_null(column, nulls, na) ==
    IF column = <<>> THEN na
    ELSE IF column[Len(column)] \notin nulls THEN column[Len(column)]
    ELSE last_non_null(SubSeq(column, 1, Len(column) - 1), nulls, na)

\* variant: the first value of the column, null or not
first_value(column, nulls, na) == IF column = <<>> THEN na ELSE Head(column)

\* first_non_null over one column of a group; nulls are the null values of
\* the column (pd.notna is false of them), na is the pd.NA it returns
RECURSIVE first_non_null(_, _, _)
first_non_null(column, nulls, na) ==
    IF column = <<>> THEN na
    ELSE IF Head(column) \notin nulls THEN Head(column)
    ELSE first_non_null(Tail(column), nulls, na)

\* the markers written in ASCII; the source also lists circle glyphs
O_MARKERS == {<<"o">>, <<"O">>}

\* series.loc[mask] = 1; the 1 is read back by astype(str) as the text "1"
_normalize_o_markers(column) ==
    [i \in DOMAIN column |->
        IF strip(str(column[i])) \in O_MARKERS THEN <<"1">> ELSE column[i]]

\* df["amount"] = clean_amount_vectorized(_normalize_o_markers(df["amount"]))
_normalize_merge_df(rows) ==
    LET amounts == clean_amount_vectorized(
                       _normalize_o_markers([i \in DOMAIN rows |-> rows[i].amount]))
    IN  [i \in DOMAIN rows |-> [rows[i] EXCEPT !.amount = amounts[i]]]

\* one normalized frame per readable file, tagged with its file name
build_merge_frames(items) ==
    [f \in DOMAIN items |->
        LET df == _normalize_merge_df(items[f].rows) IN
        [i \in DOMAIN df |->
            [id |-> df[i].id, region |-> df[i].region, amount |-> df[i].amount,
             memo |-> df[i].memo, source |-> items[f].name]]]

\* pd.concat(frames, ignore_index=True): the rows in file order, renumbered
RECURSIVE concat(_)
concat(frames) ==
    IF frames = <<>> THEN <<>> ELSE Head(frames) \o concat(Tail(frames))

reindex(rows) ==
    [i \in DOMAIN rows |->
        [index |-> i - 1, id |-> rows[i].id, region |-> rows[i].region,
         amount |-> rows[i].amount, memo |-> rows[i].memo,
         source |-> rows[i].source]]

\* <<>> for None (no frames), else <<raw_df>>
merge_file_items(items) ==
    LET frames == build_merge_frames(items) IN
    IF frames = <<>> THEN <<>> ELSE <<reindex(concat(frames))>>

\* groupby(id) drops the null key unless dropna=False
group_keys(raw, dropna) ==
    {raw[i].id : i \in DOMAIN raw} \ (IF dropna THEN {NaNCell} ELSE {})

group_rows(raw, id) ==
    LET InGroup(r) == r.id = id IN SelectSeq(raw, InGroup)

\* a count that takes every row of the group, absent amounts included
amount_counts_all_rows(raw, id) == Len(group_rows(raw, id))

\* groupby(id)[amount].apply(lambda s: s.notna().sum())
amount_counts(raw, id) ==
    LET Carries(r) == r.id = id /\ notna(r.amount) IN Len(SelectSeq(raw, Carries))

duplicate_ids(raw) == {id \in group_keys(raw, TRUE) : amount_counts(raw, id) >= 2}

\* raw_df[raw_df[id].isin(duplicate_ids)] through build_view
duplicate_report(raw) ==
    LET Isin(r) == r.id \in duplicate_ids(raw)
        report  == SelectSeq(raw, Isin)
    IN  [k \in DOMAIN report |->
            [index |-> report[k].index, region |-> report[k].region,
             source_file |-> report[k].source, id |-> report[k].id,
             amount |-> report[k].amount, memo |-> report[k].memo]]

\* the sort order of the group keys that are drawn; the null key comes last
KeyOrder == <<<<"A">>, <<"B">>, NaNCell>>

column_of(rows, field) == [i \in DOMAIN rows |-> rows[i][field]]

\* groupby(id, dropna=False).aggregate(first_non_null).reset_index()
merged_rows(raw) ==
    LET InBatch(id) == id \in group_keys(raw, FALSE)
        keys == SelectSeq(KeyOrder, InBatch)
    IN  [k \in DOMAIN keys |->
            LET g == group_rows(raw, keys[k]) IN
            [id |-> keys[k],
             region |-> first_non_null(column_of(g, "region"), {NaNCell}, NaNCell),
             tithe |-> first_non_null(column_of(g, "amount"), {NA, nan}, NA),
             memo |-> first_non_null(column_of(g, "memo"), {NaNCell}, NaNCell)]]

compute_merge_views(raw) == <<duplicate_report(raw), merged_rows(raw)>>

\* --------------------------------------------------- merge mode: the inputs
Cell_1000 == <<"1", "0", "0", "0">>

Cell_2000 == <<"2", "0", "0", "0">>

Cell_3000 == <<"3", "0", "0", "0">>

merge_row(id, region, amount, memo) ==
    [id |-> id, region |-> region, amount |-> amount, memo |-> memo]

\* snapshots of A, of B and of rows without identifier; amounts that are
\* numbers, a payment mark, a dash and an empty cell
MergeRows ==
    {merge_row(<<"A">>, <<"r">>, a, NaNCell) :
        a \in {NaNCell, Cell_1000, <<"-">>, <<"o">>}}
    \cup {merge_row(<<"A">>, NaNCell, Cell_2000, <<"m">>)}
    \cup {merge_row(<<"B">>, <<"s">>, a, NaNCell) : a \in {NaNCell, Cell_3000}}
    \cup {merge_row(NaNCell, <<"r">>, a, <<"n">>) : a \in {NaNCell, Cell_1000}}

SourceNames == <<"f1", "f2">>

\* a list of n named files over the rows of a batch: one file with all the
\* rows, or two files with the rows before and after the cut
FileItems(rows, cut, n) ==
    IF n = 0 THEN <<>>
    ELSE IF n = 1 THEN <<[name |-> SourceNames[1], rows |-> rows]>>
    ELSE <<[name |-> SourceNames[1], rows |-> SubSeq(rows, 1, cut)],
           [name |-> SourceNames[2], rows |-> SubSeq(rows, cut + 1, Len(rows))]>>

\* no file, one file with rows, or two files (either may be without rows);
\* the rows number at most MaxBatch
InitMerge ==
    /\ \E rows \in SeqsUpTo(MergeRows, MaxBatch) :
       \E cut \in 0..Len(rows) :
       \E n \in 0..Len(SourceNames) :
          /\ n = 0 => rows = <<>>
          /\ n = 1 => rows # <<>> /\ cut = Len(rows)
          /\ file_items = FileItems(rows, cut, n)
    /\ raw_df = <<>>
    /\ duplicate_report_view = <<>>
    /\ merged_view = <<>>
    /\ mpc = "merge"
    /\ IdleAmount
    /\ IdleAnnual
    /\ IdleBatch
    /\ IdleSchema
    /\ IdleParser
    /\ IdleTable

\* -------------------------------------------------- merge mode: the actions
\* merge_file_items: None when no frame was built
MergeFileItems ==
    /\ mpc = "merge"
    /\ LET merged == merge_file_items(file_items) IN
       IF merged = <<>>
       THEN raw_df' = <<>> /\ mpc' = "none"
       ELSE raw_df' = merged[1] /\ mpc' = "views"
    /\ UNCHANGED <<file_items, duplicate_report_view, merged_view,
                   varsAmount, varsAnnual, varsBatch,
                   varsSchema, varsParser, varsTable>>

ComputeMergeViews ==
    /\ mpc = "views"
    /\ duplicate_report_view' = compute_merge_views(raw_df)[1]
    /\ merged_view' = compute_merge_views(raw_df)[2]
    /\ mpc' = "done"
    /\ UNCHANGED <<file_items, raw_df, varsAmount, varsAnnual, varsBatch,
                   varsSchema, varsParser, varsTable>>

NextMerge ==
    \/ MergeFileItems
    \/ ComputeMergeViews

SpecMerge == InitMerge /\ [][NextMerge]_vars

\* ------------------------------------- services/merge_service.py: the batch
\* what process_subfolder_merge hands back: a returned tuple or an exception
Returned(status_key, messages) ==
    [raised |-> FALSE, status_key |-> status_key, messages |-> messages,
     exc |-> "none"]

Raised(exc) ==
    [raised |-> TRUE, status_key |-> "none", messages |-> <<>>, exc |-> exc]

message(folder_name, text) == [folder |-> folder_name, text |-> text]

\* a folder is what the file system holds for it: whether the output file
\* exists and can be written, and what its Excel files are
\*   "none"        no Excel file
\*   "unreadable"  a file that open() refuses (OSError)
\*   "unparseable" only files that read_excel rejects with ValueError
\*   "corrupt_zip" a truncated .xlsx: read_excel raises zipfile.BadZipFile
\*   "no_id"       sheets without the identifier column
\*   "good"        sheets with the identifier column
process_subfolder_merge(folder_name, folder, overwrite) ==
    IF folder.output_exists /\ ~overwrite
    THEN Returned("skip", <<message(folder_name, "output exists")>>)
    ELSE IF folder.files = "none"
    THEN Returned("skip", <<message(folder_name, "no excel file")>>)
    ELSE IF folder.files = "unreadable"
    THEN Returned("error", <<message(folder_name, "file read failed")>>)
    ELSE IF folder.files = "corrupt_zip"
    THEN Raised("BadZipFile")
    ELSE IF folder.files = "unparseable"
    THEN Returned("skip", <<message(folder_name, "nothing to merge")>>)
    ELSE IF folder.files = "no_id"
    THEN Returned("error", <<message(folder_name, "no id column")>>)
    ELSE IF ~folder.output_writable
    THEN Raised("OSError")
    ELSE Returned("saved", <<>>)

\* the except clause around future.result()
CaughtErrors ==
    {"KeyError", "ValueError", "TypeError", "OSError", "IOError", "RuntimeError"}

\* max(1, min(max_workers, len(subfolders)))
pool_size(workers, folders) == Max(1, Min(workers, Cardinality(folders)))

\* --------------------------------------------------- the batch: the inputs
folder(output_exists, files, output_writable) ==
    [output_exists |-> output_exists, files |-> files,
     output_writable |-> output_writable]

Folders ==
    {folder(FALSE, f, TRUE) :
        f \in {"none", "unreadable", "unparseable", "corrupt_zip", "no_id", "good"}}
    \cup {folder(TRUE, "good", TRUE), folder(FALSE, "good", FALSE)}

\* folder names are their ranks in sorted(subfolders)
InitBatch ==
    /\ \E n \in 0..MaxFolders :
          /\ subfolders = 1..n
          /\ folder_state \in [1..n -> Folders]
          /\ status_rows = [k \in 1..n |-> "waiting"]
    /\ max_workers \in 0..MaxWorkers
    /\ overwrite_checked \in BOOLEAN
    /\ futures = <<>>
    /\ collected = {}
    /\ written = {}
    /\ saved = 0
    /\ results = <<>>
    /\ bpc = "submit"
    /\ IdleAmount
    /\ IdleAnnual
    /\ IdleMerge
    /\ IdleSchema
    /\ IdleParser
    /\ IdleTable

\* --------------------------------------------------- the batch: the actions
Running == {k \in DOMAIN futures : futures[k] = "running"}

Outcome(k) == process_subfolder_merge(k, folder_state[k], overwrite_checked)

\* executor.submit(...) for the next folder of sorted(subfolders)
Submit ==
    /\ bpc = "submit"
    /\ Len(futures) < Cardinality(subfolders)
    /\ futures' = Append(futures, "pending")
    /\ UNCHANGED <<subfolders, folder_state, max_workers, overwrite_checked,
                   status_rows,
                   collected, written, saved, results, bpc,
                   varsAmount, varsAnnual, varsMerge,
                   varsSchema, varsParser, varsTable>>

\* the submission loop is over; as_completed(futures) begins
StartCollect ==
    /\ bpc = "submit"
    /\ Len(futures) = Cardinality(subfolders)
    /\ bpc' = "collect"
    /\ UNCHANGED <<subfolders, folder_state, max_workers, overwrite_checked,
                   status_rows,
                   futures, collected, written, saved, results,
                   varsAmount, varsAnnual, varsMerge,
                   varsSchema, varsParser, varsTable>>

\* a free worker thread takes the oldest queued task
WorkerStart(k) ==
    /\ futures[k] = "pending"
    /\ \A j \in 1..(k - 1) : futures[j] # "pending"
    /\ Cardinality(Running) < pool_size(max_workers, subfolders)
    /\ futures' = [futures EXCEPT ![k] = "running"]
    /\ UNCHANGED <<subfolders, folder_state, max_workers, overwrite_checked,
                   status_rows,
                   collected, written, saved, results, bpc,
                   varsAmount, varsAnnual, varsMerge,
                   varsSchema, varsParser, varsTable>>

\* process_subfolder_merge runs to its end; "saved" has written the output
WorkerFinish(k) ==
    /\ futures[k] = "running"
    /\ futures' = [futures EXCEPT ![k] = "finished"]
    /\ written' = IF ~Outcome(k).raised /\ Outcome(k).status_key = "saved"
                  THEN written \cup {k} ELSE written
    /\ UNCHANGED <<subfolders, folder_state, max_workers, overwrite_checked,
                   status_rows,
                   collected, saved, results, bpc,
                   varsAmount, varsAnnual, varsMerge,
                   varsSchema, varsParser, varsTable>>

\* one round of the as_completed loop: the status row shows "processing",
\* future.result(), the except clause, the status row shows the status,
\* saved += 1, results.extend(messages); an exception that the clause does
\* not name leaves the loop
Collect(k) ==
    /\ bpc = "collect"
    /\ futures[k] = "finished"
    /\ k \notin collected
    /\ LET out == Outcome(k) IN
       IF out.raised /\ out.exc \notin CaughtErrors
       THEN /\ bpc' = "unwinding"
            /\ status_rows' = [status_rows EXCEPT ![k] = "processing"]
            /\ UNCHANGED <<collected, saved, results>>
       ELSE LET status_key == IF out.raised THEN "error" ELSE out.status_key
                messages   == IF out.raised
                              THEN <<message(k, "merge failed")>>
                              ELSE out.messages
            IN  /\ saved' = IF status_key = "saved" THEN saved + 1 ELSE saved
                /\ results' = results \o messages
                /\ collected' = collected \cup {k}
                /\ status_rows' = [status_rows EXCEPT ![k] = status_key]
                /\ bpc' = bpc
    /\ UNCHANGED <<subfolders, folder_state, max_workers, overwrite_checked,
                   futures, written, varsAmount, varsAnnual, varsMerge,
                   varsSchema, varsParser, varsTable>>

\* every future was collected: the with block ends and the run returns
\* saved, results
Return ==
    /\ bpc = "collect"
    /\ collected = subfolders
    /\ bpc' = "returned"
    /\ UNCHANGED <<subfolders, folder_state, max_workers, overwrite_checked,
                   status_rows,
                   futures, collected, written, saved, results,
                   varsAmount, varsAnnual, varsMerge,
                   varsSchema, varsParser, varsTable>>

\* the exception leaves the with block: shutdown(wait=True) waits for every
\* task, then run_subfolder_merge raises and returns nothing
Raise ==
    /\ bpc = "unwinding"
    /\ \A k \in DOMAIN futures : futures[k] = "finished"
    /\ bpc' = "raised"
    /\ UNCHANGED <<subfolders, folder_state, max_workers, overwrite_checked,
                   status_rows,
                   futures, collected, written, saved, results,
                   varsAmount, varsAnnual, varsMerge,
                   varsSchema, varsParser, varsTable>>

NextBatch ==
    \/ Submit
    \/ StartCollect
    \/ \E k \in DOMAIN futures : WorkerStart(k)
    \/ \E k \in DOMAIN futures : WorkerFinish(k)
    \/ \E k \in DOMAIN futures : Collect(k)
    \/ Return
    \/ Raise

SpecBatch == InitBatch /\ [][NextBatch]_vars

\* ------------------------------------------- schema resolution: the inputs
REQ_ID == <<"i", "d">>

REQ_REGION == <<"r">>

REQ_NAME == <<"n">>

\* config.FILE_GEN_REQUIRED_COLUMNS, three fields of it
REQUIRED_COLUMNS == <<REQ_ID, REQ_REGION, REQ_NAME>>

\* no table at all; the table the UI builds (the field itself and its case
\* variants); a table in which one label is an alias of two fields
AliasTables ==
    {empty_dict,
     (REQ_ID :> <<REQ_ID>>) @@ (REQ_REGION :> <<REQ_REGION>>)
         @@ (REQ_NAME :> <<REQ_NAME, <<"N">>>>),
     (REQ_ID :> <<REQ_ID>>) @@ (REQ_REGION :> <<REQ_REGION>>)
         @@ (REQ_NAME :> <<REQ_NAME, REQ_REGION>>)}

ColumnLabels ==
    {<<"i", "d">>, <<" ", "i", "d">>, <<"i", " ", "d">>, <<"BOM", "i", "d">>,
     <<"r">>, <<"r", "i", "d">>, <<"n">>, <<"N">>}

InitSchema ==
    /\ source_cols \in SeqsUpTo(ColumnLabels, MaxCols)
    /\ required_aliases \in AliasTables
    /\ keyword \in {<<"i", "d">>, <<"r">>}
    /\ exclude \in {<<>>, << <<"r">> >>}
    /\ rename_out = <<>>
    /\ find_out = <<>>
    /\ df_preview = <<>>
    /\ header_out = <<>>
    /\ header_keys = <<>>
    /\ spc = "rename"
    /\ IdleAmount
    /\ IdleAnnual
    /\ IdleMerge
    /\ IdleBatch
    /\ IdleParser
    /\ IdleTable

\* ------------------------------------------ schema resolution: the actions
ApplyBuildRenameMap ==
    /\ spc = "rename"
    /\ rename_out' = <<build_rename_map(source_cols, REQUIRED_COLUMNS, required_aliases)>>
    /\ spc' = "find"
    /\ UNCHANGED <<source_cols, required_aliases, keyword, exclude, find_out,
                   df_preview, header_out, header_keys,
                   varsAmount, varsAnnual, varsMerge, varsBatch, varsParser, varsTable>>

\* find_col_by_keyword on the normalized columns of the frame
ApplyFindColByKeyword ==
    /\ spc = "find"
    /\ find_out' = <<find_col_by_keyword(rename_out[1].columns, keyword, exclude)>>
    /\ spc' = "done"
    /\ UNCHANGED <<source_cols, required_aliases, keyword, exclude, rename_out,
                   df_preview, header_out, header_keys,
                   varsAmount, varsAnnual, varsMerge, varsBatch, varsParser, varsTable>>

NextSchema ==
    \/ ApplyBuildRenameMap
    \/ ApplyFindColByKeyword

SpecSchema == InitSchema /\ [][NextSchema]_vars

\* --------------------------------------------- header detection: the inputs
\* rows of a sheet read without header: a title, a row with one field, rows
\* with two fields, and the full header written in two ways
PreviewRows ==
    {<<<<"t">>, NaNCell, NaNCell>>,
     <<<<"i", "d">>, NaNCell, <<"t">>>>,
     <<<<"i", "d">>, <<"r">>, <<"t">>>>,
     <<<<"t">>, <<"r">>, <<"N">>>>,
     <<<<"i", "d">>, <<"r">>, <<"n">>>>,
     <<<<"i", " ", "d">>, <<"r">>, <<"N">>>>}

InitHeader ==
    /\ df_preview \in SeqsUpTo(PreviewRows, MaxRows)
    /\ required_aliases \in AliasTables
    /\ source_cols = <<>>
    /\ keyword = <<>>
    /\ exclude = <<>>
    /\ rename_out = <<>>
    /\ find_out = <<>>
    /\ header_out = <<>>
    /\ header_keys = <<>>
    /\ spc = "detect"
    /\ IdleAmount
    /\ IdleAnnual
    /\ IdleMerge
    /\ IdleBatch
    /\ IdleParser
    /\ IdleTable

ApplyDetectHeaderRow ==
    /\ spc = "detect"
    /\ header_out' = <<detect_header_row(df_preview, REQUIRED_COLUMNS, required_aliases)>>
    /\ spc' = "detected"
    /\ UNCHANGED <<source_cols, required_aliases, keyword, exclude, rename_out,
                   find_out, df_preview, header_keys,
                   varsAmount, varsAnnual, varsMerge, varsBatch, varsParser, varsTable>>

NextHeader == ApplyDetectHeaderRow

SpecHeader == InitHeader /\ [][NextHeader]_vars

\* ------------------------------------------------ free-text lines: the inputs
UID_A == <<"0", "0", "3", "0", "0", "7", "2", "5", "-", "0", "0", "0", "2", "6">>

UID_B == <<"0", "0", "3", "0", "0", "7", "2", "5", "-", "0", "0", "0", "2", "7">>

\* two canonical identifiers, a number that is not one, a name of two
\* words, amounts with a space and with a comma, a word and nothing
LineTokens ==
    {UID_A, UID_B, <<"7">>, <<"I", "v", " ", "P">>, <<"2", " ", "0", "0", "0">>,
     <<"5", ",", "5">>, <<"x">>, <<>>}

LineSeparators == {<<"/">>, <<" ", "/", " ">>, <<" ">>}

RECURSIVE join_with(_, _)
join_with(tokens, sep) ==
    IF tokens = <<>> THEN <<>>
    ELSE IF Len(tokens) = 1 THEN tokens[1]
    ELSE tokens[1] \o sep \o join_with(Tail(tokens), sep)

\* the lines made of at most MaxTokens tokens and one kind of separator
TextLines ==
    {join_with(tokens, sep) :
        tokens \in SeqsUpTo(LineTokens, MaxTokens), sep \in LineSeparators}

\* lines of a file: a canonical record, a record whose number is not a
\* canonical identifier (delimited, and by spaces), a word, and a blank line
FileLines ==
    {join_with(<<UID_A, <<"I", "v", " ", "P">>, <<"2", " ", "0", "0", "0">>>>, <<" ", "/", " ">>),
     join_with(<<UID_B, <<"x">>, <<"5", ",", "5">>>>, <<" ">>),
     join_with(<<<<"7">>, <<"x">>, <<"5", ",", "5">>>>, <<"/">>),
     join_with(<<<<"7">>, <<"x">>, <<"5", ",", "5">>>>, <<" ">>),
     <<"x">>,
     <<" ">>}

\* one line of any shape, or a file of up to MaxLines lines
InitParser ==
    /\ lines \in {<<line>> : line \in TextLines} \cup SeqsUpTo(FileLines, MaxLines)
    /\ parsed_lines = <<>>
    /\ txt_df = <<>>
    /\ tpc = "parse"
    /\ IdleAmount
    /\ IdleAnnual
    /\ IdleMerge
    /\ IdleBatch
    /\ IdleSchema
    /\ IdleTable

\* variant: the frame keeps the records whether or not an identifier is
\* canonical
parse_txt_to_df_unchecked(text_lines) ==
    LET parsed == [k \in DOMAIN text_lines |-> _parse_line_logic(text_lines[k])]
    IN  [columns |-> <<"uid", "name", "amount">>,
         rows |-> SelectSeq(parsed, LAMBDA r : r.uid # <<>>)]

\* the frame of the parsed lines: the records with an identifier, in line
\* order; a frame without columns when no record has a canonical identifier
parse_txt_to_df(text_lines) ==
    LET parsed == [k \in DOMAIN text_lines |-> _parse_line_logic(text_lines[k])]
        rows == SelectSeq(parsed, LAMBDA r : r.uid # <<>>)
        valid_format_found ==
            \E k \in DOMAIN rows : _is_valid_uid_format(rows[k].uid[1])
    IN  IF rows = <<>>
        THEN [columns |-> <<"uid", "name", "amount">>, rows |-> <<>>]
        ELSE IF ~valid_format_found THEN [columns |-> <<>>, rows |-> <<>>]
        ELSE [columns |-> <<"uid", "name", "amount">>, rows |-> rows]

ParseTxtToDf ==
    /\ tpc = "parse"
    /\ parsed_lines' = [k \in DOMAIN lines |-> _parse_line_logic(lines[k])]
    /\ txt_df' = parse_txt_to_df(lines)
    /\ tpc' = "parsed"
    /\ UNCHANGED <<lines, varsAmount, varsAnnual, varsMerge, varsBatch, varsSchema,
                   varsTable>>

NextParser == ParseTxtToDf

SpecParser == InitParser /\ [][NextParser]_vars

\* ------------------------------------------------- annual table on counts
TableRegions == {<<"N">>, <<"S">>}

TableMonths == {3, 4}

\* <<total, paid>> of a region in a month; 7 paid of 10 is the example of
\* the statistics
CountPairs ==
    {c \in (0..MaxTotal) \X (0..MaxTotal) : c[2] <= c[1]} \cup {<<10, 7>>}

\* totals and paid_counts as the counting loop leaves them: defaultdicts
\* that hold a key only where something was added
counts_of(cell) ==
    LET held(i) == {g \in TableRegions : \E m \in TableMonths : cell[<<g, m>>][i] > 0}
        months(g, i) == {m \in TableMonths : cell[<<g, m>>][i] > 0}
    IN  [totals |-> [g \in held(1) |-> [m \in months(g, 1) |-> cell[<<g, m>>][1]]],
         paid_counts |-> [g \in held(2) |-> [m \in months(g, 2) |-> cell[<<g, m>>][2]]]]

InitTable ==
    /\ counts \in {counts_of(cell) : cell \in [TableRegions \X TableMonths -> CountPairs]}
    /\ table_out = <<>>
    /\ tbpc = "count"
    /\ IdleAmount
    /\ IdleAnnual
    /\ IdleMerge
    /\ IdleBatch
    /\ IdleSchema
    /\ IdleParser

\* lines 199-240 of build_annual_region_table
BuildRegionTable ==
    /\ tbpc = "count"
    /\ \E table \in tables_of(counts) : table_out' = <<table>>
    /\ tbpc' = "done"
    /\ UNCHANGED <<counts, varsAmount, varsAnnual, varsMerge, varsBatch, varsSchema,
                   varsParser>>

NextTable == BuildRegionTable

SpecTable == InitTable /\ [][NextTable]_vars


\* ------------------------------------------------ header normalizer alone
\* a letter, the whitespace characters and the invisible characters
HeaderChars == {"a", " ", "TAB", "NBSP", "BOM", "ZWSP"}

RECURSIVE HeaderTexts(_)
HeaderTexts(n) ==
    IF n = 0 THEN {<<>>}
    ELSE LET shorter == HeaderTexts(n - 1) IN
         shorter \cup {Append(t, c) : t \in {x \in shorter : Len(x) = n - 1},
                                      c \in HeaderChars}

InitNormalizer ==
    /\ source_cols \in {<<x>> : x \in HeaderTexts(MaxHeaderLen)}
    /\ required_aliases = empty_dict
    /\ keyword = <<>>
    /\ exclude = <<>>
    /\ rename_out = <<>>
    /\ find_out = <<>>
    /\ df_preview = <<>>
    /\ header_out = <<>>
    /\ header_keys = <<>>
    /\ spc = "normalize"
    /\ IdleAmount
    /\ IdleAnnual
    /\ IdleMerge
    /\ IdleBatch
    /\ IdleParser
    /\ IdleTable

\* normalize_header_text on each label
ApplyNormalizeHeaderText ==
    /\ spc = "normalize"
    /\ header_keys' = [i \in DOMAIN source_cols |-> normalize_header_text(source_cols[i])]
    /\ spc' = "normalized"
    /\ UNCHANGED <<source_cols, required_aliases, keyword, exclude, rename_out,
                   find_out, df_preview, header_out,
                   varsAmount, varsAnnual, varsMerge, varsBatch, varsParser, varsTable>>

NextNormalizer == ApplyNormalizeHeaderText

SpecNormalizer == InitNormalizer /\ [][NextNormalizer]_vars

\* ================================================================== claims
\* ----------------------------------------------------------- annual merge
\* the period of input file i: <<>> or <<year, month>>
PeriodOf(i) == _parse_yyyymm_from_name(file_paths[i].name)

\* the rows of the input whose file carries a period: <<file, row>> places
Places ==
    UNION {{<<i, j>> : j \in DOMAIN file_paths[i].df.rows} :
              i \in {n \in DOMAIN file_paths : PeriodOf(n) # <<>>}}

RowAt(s) == file_paths[s[1]].df.rows[s[2]]

FrameAt(s) == file_paths[s[1]].df

MonthAt(s) == PeriodOf(s[1])[2]

KeyAt(s) == member_key(FrameAt(s), RowAt(s))

MemberKeys == {KeyAt(s)[1] : s \in {t \in Places : KeyAt(t) # <<>>}}

Snapshots(k) == {s \in Places : KeyAt(s) = <<k>>}

DistinctPeriods(k) ==
    \A s, t \in Snapshots(k) : s # t => MonthAt(s) # MonthAt(t)

SingleYearRun == pc = "done" /\ target_year # <<>>

\* C1: once a single-year run has folded every file, the profile of every
\* member whose snapshots have pairwise distinct periods equals, attribute for
\* attribute (blank ones included), the snapshot of the highest period,
\* whatever the arrival order of the files.
C1_HighestPeriodWins ==
    SingleYearRun =>
        \A k \in MemberKeys :
            DistinctPeriods(k) =>
                LET top == CHOOSE s \in Snapshots(k) :
                               \A t \in Snapshots(k) : MonthAt(t) <= MonthAt(s)
                IN  /\ k \in DOMAIN persons
                    /\ persons[k].base_info = new_base_info(FrameAt(top), RowAt(top))

\* arrival order 1, 3, 2: the blank period-3 snapshot of member A is the profile
C1_Witness ==
    /\ pc = "done"
    /\ file_paths = <<[name |-> Name_2024_01, df |-> [cols |-> AllCols, rows |-> <<RowA1>>],
                       io |-> "ok"],
                      [name |-> Name_2024_03, df |-> [cols |-> AllCols, rows |-> <<RowA3>>],
                       io |-> "ok"],
                      [name |-> Name_24_02, df |-> [cols |-> AllCols, rows |-> <<RowA2>>],
                       io |-> "ok"]>>
    /\ persons[<<"A">>].base_info.region = <<"n", "a", "n">>
    /\ persons[<<"A">>].base_info.team = <<>>

\* the payment fact of a snapshot: raw value, memo, paid flag
PaymentFact(s) ==
    LET tithe == IF "tithe" \in FrameAt(s).cols THEN RowAt(s).tithe ELSE <<>>
        memo  == IF "memo" \in FrameAt(s).cols THEN RowAt(s).memo ELSE <<>>
    IN  [tithe   |-> IF isna(tithe) THEN <<>> ELSE tithe,
         memo    |-> IF isna(memo) THEN <<>> ELSE memo,
         is_paid |-> _parse_paid_amount(tithe)[1]]

\* the positions in the history of the snapshots of member k and month m
FoldedOf(k, m) ==
    {n \in DOMAIN folded : KeyAt(folded[n]) = <<k>> /\ MonthAt(folded[n]) = m}

\* C2: in every state of a run, each ledger entry (k, m) holds the payment
\* fact of the snapshot of k and m that was folded last, and of it alone; the
\* ledger of k has an entry for exactly the months folded for k.
C2_LaterProcessedWins ==
    \A k \in DOMAIN persons :
        /\ DOMAIN persons[k].monthly_data = {m \in Months : FoldedOf(k, m) # {}}
        /\ \A m \in DOMAIN persons[k].monthly_data :
               LET last == CHOOSE n \in FoldedOf(k, m) : \A n2 \in FoldedOf(k, m) : n2 <= n
               IN  persons[k].monthly_data[m] = PaymentFact(folded[last])

\* two snapshots of one member and one period with different payment facts
C2_Witness ==
    /\ pc = "done"
    /\ \E k \in DOMAIN persons : \E m \in DOMAIN persons[k].monthly_data :
           \E n1, n2 \in FoldedOf(k, m) :
               /\ n1 < n2
               /\ PaymentFact(folded[n1]) # PaymentFact(folded[n2])
               /\ PaymentFact(folded[n1]).is_paid

\* a cell that is absent (no such column), null, or empty after trimming
BlankCell(df, row, col) ==
    \/ col \notin df.cols
    \/ isna(row[col])
    \/ strip(row[col]) = <<>>

\* C7: a row whose identifier cell is absent or empty is keyed by its trimmed
\* display name; if the name is absent or empty too, folding the row changes
\* no profile and no ledger entry.
C7_IdentifierFallback ==
    [][pc = "rows" =>
         LET item == parsed_items[fi]
             df   == file_paths[item.file].df
             row  == df.rows[ri]
         IN  BlankCell(df, row, "id") =>
                 IF BlankCell(df, row, "name_kr")
                 THEN persons' = persons
                 ELSE /\ strip(row.name_kr) \in DOMAIN persons'
                      /\ \A k \in DOMAIN persons' \ {strip(row.name_kr)} :
                             k \in DOMAIN persons /\ persons'[k] = persons[k]]_vars

\* the years of the input files that carry a period
InputYears == {PeriodOf(i)[1] : i \in {j \in DOMAIN file_paths : PeriodOf(j) # <<>>}}

\* C8: when the input files carry more than one year, the run returns an
\* empty table, no target year and the distinct years in ascending order; no
\* file was read and no profile or ledger entry was built.
C8_YearMixingGuard ==
    (pc = "done" /\ Cardinality(InputYears) > 1) =>
        /\ result[1].table = EmptyTable
        /\ result[1].target_year = <<>>
        /\ {result[1].years[i] : i \in DOMAIN result[1].years} = InputYears
        /\ \A i, j \in DOMAIN result[1].years :
               i < j => result[1].years[i] < result[1].years[j]
        /\ opened = {}
        /\ persons = empty_dict

\* files of 2024 and 2025 in one run: years 2024, 2025 are reported
C8_Witness ==
    /\ pc = "done"
    /\ result[1].years = <<2024, 2025>>
    /\ result[1].table = EmptyTable
    /\ \E i \in DOMAIN file_paths : file_paths[i].name = Name_24_02

\* the members the claim counts for group g and month m
Counted(g, m) ==
    {k \in DOMAIN persons :
        /\ persons[k].base_info.region = g
        /\ m \in DOMAIN persons[k].monthly_data
        /\ ~contains(persons[k].base_info.attend, EXEMPT)}

ProfileRegions == {persons[k].base_info.region : k \in DOMAIN persons}

NamedRegion(g) == g # <<>> /\ lower(g) # <<"n", "a", "n">>

\* C9 as stated: for every group g (the region of the profiles) and month m
\* the total is the number of members of g with an entry for m and no
\* exemption flag.
C9_Denominators_AsStated ==
    SingleYearRun =>
        \A g \in ProfileRegions : \A m \in Months :
            dict_get2(result[1].totals.totals, g, m) = Cardinality(Counted(g, m))

\* C9 amended: the same for every group whose region text is neither empty
\* nor the text nan; members of a blank or nan region are counted nowhere.
C9_Denominators ==
    SingleYearRun =>
        /\ \A g \in ProfileRegions : \A m \in Months :
               dict_get2(result[1].totals.totals, g, m) =
                   IF NamedRegion(g) THEN Cardinality(Counted(g, m)) ELSE 0
        /\ DOMAIN result[1].totals.totals \subseteq ProfileRegions

\* a region with a counted member in a month where another member of the same
\* region has no entry, and an exempt member with an entry
C9_Witness ==
    /\ SingleYearRun
    /\ \E k1, k2 \in DOMAIN persons : \E m \in Months :
           /\ k1 # k2
           /\ persons[k1].base_info.region = persons[k2].base_info.region
           /\ k1 \in Counted(persons[k1].base_info.region, m)
           /\ m \notin DOMAIN persons[k2].monthly_data
           /\ ~contains(persons[k2].base_info.attend, EXEMPT)
    /\ \E k \in DOMAIN persons : contains(persons[k].base_info.attend, EXEMPT)

\* ------------------------------------------------------ amount functions
\* digits with one comma before the last three: 1,000  10,000  100,000
IsGroupedThousands(s) ==
    \E k \in 1..3 :
        /\ Len(s) = k + 4
        /\ s[k + 1] = ","
        /\ \A i \in (1..Len(s)) \ {k + 1} : s[i] \in Digits

Ungrouped(s) == DecimalValue(replace(s, ",", <<>>))

\* C5: clean_amount and clean_amount_vectorized map digits written with a
\* comma thousands separator to the number without the separator
\* (1,000 -> 1000), and 1.5 to 1.5.
C5_GroupingSeparator ==
    apc = "done" =>
        \A i \in DOMAIN series :
            /\ IsGroupedThousands(series[i]) =>
                   /\ notna(clean_out[i]) /\ NumEq(clean_out[i], Ungrouped(series[i]))
                   /\ notna(vec_out[i]) /\ NumEq(vec_out[i], Ungrouped(series[i]))
            /\ series[i] = <<"1", ".", "5">> =>
                   /\ notna(clean_out[i]) /\ NumEq(clean_out[i], [num |-> 15, den |-> 10])
                   /\ notna(vec_out[i]) /\ NumEq(vec_out[i], [num |-> 15, den |-> 10])

\* the cell text without surrounding blanks, commas and spaces
Bare(v) == replace(replace(strip(v), ",", <<>>), " ", <<>>)

NumericCell(v) == ~isna(v) /\ IsDecimal(Bare(v))

PositiveCell(v) ==
    /\ NumericCell(v)
    /\ Head(Bare(v)) # "-"
    /\ \E i \in DOMAIN Bare(v) : Bare(v)[i] \in Digits \ {"0"}

HoldsText(v) == ~isna(v) /\ strip(v) # <<>>

\* C6: paid(v) is true exactly when v is numeric and positive, or v is not
\* numeric and holds non-empty text after trimming; null, blank, zero and
\* negative numeric cells are unpaid.
C6_PaidPredicate ==
    apc = "done" =>
        \A i \in DOMAIN series :
            paid_out[i][1] =
                (PositiveCell(series[i]) \/ (~NumericCell(series[i]) /\ HoldsText(series[i])))

\* a memo text in the amount cell is paid; the run has applied the predicate
C6_Witness ==
    /\ apc = "done"
    /\ series = << <<" ", "a", " ">> >>
    /\ paid_out[1][1] = TRUE

\* ------------------------------------------------------------- merge mode
\* the snapshots of the batch as they were read: file order, then row order
BatchRows ==
    concat([f \in DOMAIN file_items |->
               [i \in DOMAIN file_items[f].rows |->
                   [id |-> file_items[f].rows[i].id,
                    amount |-> file_items[f].rows[i].amount,
                    file |-> file_items[f].name]]])

\* the snapshot carries a non-absent normalized amount
CarriesAmount(snapshot) ==
    notna(clean_amount_vectorized(_normalize_o_markers(<<snapshot.amount>>))[1])

BatchIds == {BatchRows[k].id : k \in DOMAIN BatchRows} \ {NaNCell}

AmountSnapshots(id) ==
    {k \in DOMAIN BatchRows : BatchRows[k].id = id /\ CarriesAmount(BatchRows[k])}

AbsentSnapshots(id) ==
    {k \in DOMAIN BatchRows : BatchRows[k].id = id /\ ~CarriesAmount(BatchRows[k])}

InReport(id) ==
    \E k \in DOMAIN duplicate_report_view : duplicate_report_view[k].id = id

\* C3 (as stated): the duplicate report holds exactly one row for each
\* snapshot that belongs to a flagged identifier and carries a non-empty
\* monetary value, tagged with its originating file, and no other row; with
\* A=1000, A=2000, A=absent and B=3000 it holds exactly the two rows for A.
C3_ReportContent ==
    mpc = "done" =>
        /\ \A k \in DOMAIN BatchRows :
              (BatchRows[k].id \in BatchIds
                  /\ Cardinality(AmountSnapshots(BatchRows[k].id)) >= 2
                  /\ CarriesAmount(BatchRows[k]))
              <=> (\E r \in DOMAIN duplicate_report_view :
                      duplicate_report_view[r].index = k - 1)
        /\ \A r, s \in DOMAIN duplicate_report_view :
              duplicate_report_view[r].index = duplicate_report_view[s].index
                  => r = s
        /\ \A r \in DOMAIN duplicate_report_view :
              /\ duplicate_report_view[r].index + 1 \in DOMAIN BatchRows
              /\ duplicate_report_view[r].source_file
                     = BatchRows[duplicate_report_view[r].index + 1].file

\* C4: an identifier has rows in the duplicate report if and only if at
\* least 2 of its snapshots in the batch carry a non-absent normalized
\* amount; with 0 or 1 such snapshots it has no row there, however many
\* absent-amount snapshots it has.
C4_DuplicateFlagging ==
    mpc = "done" =>
        \A id \in BatchIds :
            InReport(id) <=> Cardinality(AmountSnapshots(id)) >= 2

\* one identifier is flagged while another, with one amount and an absent
\* snapshot beside it, is not
C4_Witness ==
    /\ mpc = "done"
    /\ \E a, b \in BatchIds :
          /\ InReport(a)
          /\ Cardinality(AmountSnapshots(a)) >= 2
          /\ ~InReport(b)
          /\ Cardinality(AmountSnapshots(b)) = 1
          /\ AbsentSnapshots(b) # {}

\* ------------------------------------------------------------- the batch
\* the subfolder's merge fails: it raises, or it returns the status error
Fails(k) == Outcome(k).raised \/ Outcome(k).status_key = "error"

MessagesOf(k) ==
    LET About(m) == m.folder = k IN SelectSeq(results, About)

\* C10 (as stated): whatever the error of one subfolder's merge, the run
\* still returns, the failing subfolder is reported as an error message, and
\* the saved count and the messages of the other subfolders are those of
\* their own merges.
C10_BatchIsolation ==
    /\ bpc # "raised"
    /\ bpc = "returned" =>
          /\ \A k \in subfolders : Fails(k) => MessagesOf(k) # <<>>
          /\ \A k \in subfolders : ~Fails(k) => MessagesOf(k) = Outcome(k).messages
          /\ saved = Cardinality({k \in subfolders :
                                     ~Fails(k) /\ Outcome(k).status_key = "saved"})

\* ------------------------------------------------------ per-input isolation
Unreadable == {i \in DOMAIN file_paths : file_paths[i].io # "ok"}

\* C11 (as stated): an I/O or decoding error on one input file does not
\* abort the batch: the annual collection still ends, and every row of the
\* remaining files of the year has been folded.
C11_PerInputIsolation ==
    /\ pc # "raised"
    /\ SingleYearRun =>
          \A s \in Places :
              s[1] \notin Unreadable => \E n \in DOMAIN folded : folded[n] = s

\* ------------------------------------------------- the fold, step by step
\* C12: from one folded snapshot to the next, no member's profile is lost
\* and its last updated period (last_updated_month) does not decrease.
C12_LastUpdatedMonotone ==
    [][\A k \in DOMAIN persons :
          /\ k \in DOMAIN persons'
          /\ persons'[k].last_updated_month >= persons[k].last_updated_month]_vars

\* a member whose profile was stamped by a later period than one of its
\* ledger entries: at least two snapshots of it were folded
C12_Witness ==
    /\ pc = "done"
    /\ \E k \in DOMAIN persons : \E m \in DOMAIN persons[k].monthly_data :
           m < persons[k].last_updated_month

\* C13: folding a snapshot of period p for member k writes the ledger entry
\* (k, p) with the snapshot's payment fact, whatever the profile's last
\* updated period, and changes no other ledger entry: k's entries of the
\* other periods, and the profiles and entries of the other members, are
\* as before.
C13_LedgerFrame ==
    [][pc = "rows" =>
         LET item == parsed_items[fi]
             df   == file_paths[item.file].df
             key  == member_key(df, df.rows[ri])
         IN  key # <<>> =>
               LET k == key[1]
                   p == item.month
               IN  /\ k \in DOMAIN persons'
                   /\ p \in DOMAIN persons'[k].monthly_data
                   /\ persons'[k].monthly_data[p] = PaymentFact(<<item.file, ri>>)
                   /\ \A m \in Months \ {p} :
                          IF k \in DOMAIN persons /\ m \in DOMAIN persons[k].monthly_data
                          THEN /\ m \in DOMAIN persons'[k].monthly_data
                               /\ persons'[k].monthly_data[m] = persons[k].monthly_data[m]
                          ELSE m \notin DOMAIN persons'[k].monthly_data
                   /\ DOMAIN persons' = DOMAIN persons \cup {k}
                   /\ \A k2 \in DOMAIN persons \ {k} : persons'[k2] = persons[k2]]_vars

\* a ledger with two periods of one member beside another member's record
C13_Witness ==
    /\ pc = "done"
    /\ \E k, k2 \in DOMAIN persons :
           /\ k # k2
           /\ Cardinality(DOMAIN persons[k].monthly_data) >= 2
           /\ persons[k2].monthly_data # empty_dict

\* ------------------------------------------------------- the merged view
\* the values of the identifier column in the batch; the snapshots without
\* identifier share the null value
BatchKeys == {BatchRows[k].id : k \in DOMAIN BatchRows}

NormalizedAmount(snapshot) ==
    clean_amount_vectorized(_normalize_o_markers(<<snapshot.amount>>))[1]

OwnAmounts(id) == {NormalizedAmount(BatchRows[k]) : k \in AmountSnapshots(id)}

MergedRowsOf(id) == {r \in DOMAIN merged_view : merged_view[r].id = id}

\* C14: the merged view has exactly one row for each distinct value of the
\* identifier column in the batch (the snapshots without identifier are
\* gathered in one row of their own) and no other row; the amount of a row
\* is one of the non-absent normalized amounts of its own snapshots when
\* there is one, and absent otherwise: never a sum or a value of another
\* identifier.
C14_MergedView ==
    mpc = "done" =>
        /\ \A id \in BatchKeys : Cardinality(MergedRowsOf(id)) = 1
        /\ Len(merged_view) = Cardinality(BatchKeys)
        /\ \A r \in DOMAIN merged_view :
              LET id == merged_view[r].id IN
              /\ id \in BatchKeys
              /\ IF AmountSnapshots(id) # {}
                 THEN merged_view[r].tithe \in OwnAmounts(id)
                 ELSE ~notna(merged_view[r].tithe)

\* two identifiers, one of them with two different amounts after a snapshot
\* without amount
C14_Witness ==
    /\ mpc = "done"
    /\ Len(merged_view) = 2
    /\ \E id \in BatchIds :
          /\ Cardinality(OwnAmounts(id)) = 2
          /\ \E k \in AbsentSnapshots(id) : \A j \in AmountSnapshots(id) : k < j
          /\ \E r \in MergedRowsOf(id) : notna(merged_view[r].tithe)

\* --------------------------------------------------------- absent values
AbsentCells == {<<>>, <<"-">>, <<".">>, NaNCell}

\* C15: clean_amount and clean_amount_vectorized give no number, hence not
\* zero, for the empty string, a bare minus, a bare decimal point and a null
\* cell.
C15_AbsentValues ==
    apc = "done" =>
        \A i \in DOMAIN series :
            series[i] \in AbsentCells =>
                /\ ~notna(clean_out[i])
                /\ ~notna(vec_out[i])

\* the bare minus has gone through both normalizers
C15_Witness ==
    /\ apc = "done"
    /\ series = << <<"-">> >>
    /\ clean_out[1] = NA
    /\ vec_out[1] = nan

\* ------------------------------------------------------------ unset cells
\* a payment cell that is blank (null, empty or spaces) or a bare dash
UnsetCell(v) == isna(v) \/ strip(v) \in {<<>>, <<"-">>}

\* C16 (as stated): a payment cell that is blank or a bare dash has an absent
\* normalized amount and the paid boolean false.
C16_UnsetIsUnpaid ==
    apc = "done" =>
        \A i \in DOMAIN series :
            UnsetCell(series[i]) =>
                /\ ~notna(clean_out[i])
                /\ ~notna(vec_out[i])
                /\ paid_out[i][1] = FALSE

\* ------------------------------------------------------ schema resolution
Required == {REQUIRED_COLUMNS[n] : n \in DOMAIN REQUIRED_COLUMNS}

RenameMap == rename_out[1].rename_map

Missing == {rename_out[1].missing[n] : n \in DOMAIN rename_out[1].missing}

Resolved == {RenameMap[col] : col \in DOMAIN RenameMap}

\* some source column carries a label that is an alias of the field
HasMatchingColumn(required) ==
    \E i \in DOMAIN source_cols :
        \E n \in DOMAIN candidates_of(required, required_aliases) :
            candidates_of(required, required_aliases)[n]
                = normalize_header_text(normalize_column(source_cols[i]))

\* C17 (as stated): for every set of source columns and every alias table,
\* each required field is the target of an entry of the rename map or is
\* listed in missing, never neither; a required field with no matching
\* source column is listed in missing.
C17_RenameOrMissing ==
    spc = "done" =>
        \A required \in Required :
            /\ required \in Resolved \/ required \in Missing
            /\ ~HasMatchingColumn(required) => required \in Missing

\* the leftmost position among those of a non-empty set
Leftmost(S) == CHOOSE i \in S : \A j \in S : i <= j

KeywordMatches ==
    {i \in DOMAIN rename_out[1].columns :
        /\ contains(rename_out[1].columns[i], keyword)
        /\ exclude = <<>> \/ ~contains(rename_out[1].columns[i], exclude[1])}

SameLabel(col) ==
    {i \in DOMAIN rename_out[1].columns :
        normalize_header_text(rename_out[1].columns[i]) = normalize_header_text(col)}

\* C19 (as stated): when more than one source column matches, the leftmost
\* one is selected: by find_col_by_keyword among the columns that contain the
\* keyword, and by build_rename_map among the columns whose normalized
\* labels are equal.
C19_LeftmostWins ==
    spc = "done" =>
        /\ find_out[1] = IF KeywordMatches = {} THEN <<>>
                         ELSE <<rename_out[1].columns[Leftmost(KeywordMatches)]>>
        /\ \A col \in DOMAIN RenameMap :
              col = rename_out[1].columns[Leftmost(SameLabel(col))]

\* -------------------------------------------------------- header detection
\* rows are numbered from 0, as the function returns them
ScannedRows == 0..(Min(Len(df_preview), SCAN_ROWS) - 1)

HitsOf(idx) == row_hits(df_preview[idx + 1], REQUIRED_COLUMNS, required_aliases)

\* C18 (as stated): among the scanned leading rows (at most 100) the
\* function returns a row that matches the highest number of required
\* fields, provided that number is at least 2, and no header if no scanned
\* row matches at least 2 required fields.
C18_HighestScoreRow ==
    spc = "detected" =>
        IF \E idx \in ScannedRows : HitsOf(idx) >= 2
        THEN /\ header_out[1] # <<>>
             /\ header_out[1][1] \in ScannedRows
             /\ \A idx \in ScannedRows : HitsOf(idx) <= HitsOf(header_out[1][1])
        ELSE header_out[1] = <<>>

\* --------------------------------------------------------- free-text lines
\* the trimmed tokens of line k between its "/" delimiters
PartsOf(k) ==
    LET raw == split(strip(lines[k]), "/") IN [j \in DOMAIN raw |-> strip(raw[j])]

Canonical(token) ==
    /\ Len(token) = 14
    /\ \A j \in 1..8 : token[j] \in Digits
    /\ token[9] = "-"
    /\ \A j \in 10..14 : token[j] \in Digits

\* C20: on a line that holds the delimiter "/" and whose first or second
\* token has the canonical format (8 digits, hyphen, 5 digits), the
\* identifier is the first such token, the name is the token right after it
\* (none when the identifier is the last token), and the amount is the value
\* of the last token after the name that holds a digit (0.0 when there is
\* none).
C20_StrategyA ==
    tpc = "parsed" =>
        \A k \in DOMAIN lines :
            LET parts == PartsOf(k)
                first == Canonical(parts[1])
                second == Len(parts) >= 2 /\ Canonical(parts[2])
                pos == IF first THEN 1 ELSE 2
                later == {j \in (pos + 2)..Len(parts) :
                             \E h \in DOMAIN parts[j] : parts[j][h] \in Digits}
            IN  (contains(lines[k], <<"/">>) /\ (first \/ second)) =>
                    /\ parsed_lines[k].uid = <<parts[pos]>>
                    /\ parsed_lines[k].name =
                           (IF Len(parts) > pos THEN <<parts[pos + 1]>> ELSE <<>>)
                    /\ parsed_lines[k].amount =
                           (IF later = {} THEN <<Zero>>
                            ELSE <<_clean_amount_str(
                                     parts[CHOOSE j \in later : \A h \in later : h <= j])>>)

\* the line "00300725-00026 / Iv P / 2 000" gives that identifier, the name
\* "Iv P" and the amount 2000
C20_Witness ==
    /\ tpc = "parsed"
    /\ lines = <<join_with(<<UID_A, <<"I", "v", " ", "P">>,
                             <<"2", " ", "0", "0", "0">>>>, <<" ", "/", " ">>)>>
    /\ parsed_lines[1].uid = <<UID_A>>
    /\ parsed_lines[1].name = << <<"I", "v", " ", "P">> >>
    /\ parsed_lines[1].amount # <<>>
    /\ NumEq(parsed_lines[1].amount[1], [num |-> 2000, den |-> 1])

\* ---------------------------------------------------------- free-text files
\* the lines of the file from which an identifier was extracted
Extracted == {k \in DOMAIN lines : parsed_lines[k].uid # <<>>}

\* the lines whose extracted identifier has the canonical format
Verified == {k \in Extracted : Canonical(parsed_lines[k].uid[1])}

\* C21: when no extracted identifier of the file has the canonical format the
\* returned frame has no rows, whatever was extracted; a frame with rows has
\* at least one canonical identifier; a line that matches no strategy adds no
\* row (the rows are exactly the lines with an extracted identifier).
C21_FileAcceptance ==
    tpc = "parsed" =>
        /\ Verified = {} => txt_df.rows = <<>>
        /\ txt_df.rows # <<>> => Verified # {}
        /\ Verified # {} => Len(txt_df.rows) = Cardinality(Extracted)

\* a file with an extracted number that is not canonical and a word: no rows
C21_Witness ==
    /\ tpc = "parsed"
    /\ Len(lines) = 2
    /\ parsed_lines[1].uid = << <<"7">> >>
    /\ parsed_lines[2] = NoRecord
    /\ txt_df.rows = <<>>

\* C26: no row of the returned frame has an identifier that is not of the
\* canonical format (8 digits, hyphen, 5 digits).
C26_OutputPurity ==
    tpc = "parsed" =>
        \A k \in DOMAIN txt_df.rows : Canonical(txt_df.rows[k].uid[1])

\* ------------------------------------------------------------ annual table
\* x is n / d rounded to the nearest whole (either neighbour of a half)
Nearest(x, n, d) ==
    LET diff == x * d - n IN 2 * (IF diff < 0 THEN -diff ELSE diff) <= d

TotalOf(g, m) == dict_get2(counts.totals, g, m)

PaidOf(g, m) == dict_get2(counts.paid_counts, g, m)

\* C22: in every row of the table, the ratio of a period is paid / total * 100
\* rounded to one decimal when total > 0 and 0 when total = 0, and the row's
\* average is the mean, rounded to one decimal, of the ratios of exactly the
\* periods with total > 0.  Ratios and averages are in tenths of a percent.
C22_AggregateRow ==
    tbpc = "done" =>
        \A g \in DOMAIN table_out[1].rows :
            LET row == table_out[1].rows[g]
                held == {m \in Months : TotalOf(g, m) > 0}
            IN  /\ \A m \in Months \ held : row.ratio[m] = 0
                /\ \A m \in held : Nearest(row.ratio[m], PaidOf(g, m) * 1000, TotalOf(g, m))
                /\ held # {}
                /\ Nearest(row.avg, sum_over(row.ratio, held), Cardinality(held))

\* region S with 7 paid of 10 in period 3 and nobody in period 4: ratio 70.0,
\* and the average is 70.0, not 35.0
C22_Witness ==
    /\ tbpc = "done"
    /\ TotalOf(<<"S">>, 3) = 10
    /\ PaidOf(<<"S">>, 3) = 7
    /\ TotalOf(<<"S">>, 4) = 0
    /\ table_out[1].rows[<<"S">>].ratio[3] = 700
    /\ table_out[1].rows[<<"S">>].ratio[4] = 0
    /\ table_out[1].rows[<<"S">>].avg = 700

\* C23: each period column of the summary row is the mean, rounded to one
\* decimal, of the displayed ratios of all region rows in that column, a
\* region without members in the period entering with its 0.0.
C23_SummaryRow ==
    (tbpc = "done" /\ table_out[1] # EmptyTable) =>
        LET rows == table_out[1].rows IN
        \A m \in Months :
            Nearest(table_out[1].summary[1].ratio[m],
                    sum_over([g \in DOMAIN rows |-> rows[g].ratio[m]], DOMAIN rows),
                    Cardinality(DOMAIN rows))

\* S has 7 of 10 and N has 1 of 4 in period 3: the summary is 47.5, the mean
\* of 70.0 and 25.0, not 57.1 from the counts 8 of 14; in period 4 S has
\* nobody and N is at 100.0: the summary is 50.0
C23_Witness ==
    /\ tbpc = "done"
    /\ TotalOf(<<"S">>, 3) = 10 /\ PaidOf(<<"S">>, 3) = 7
    /\ TotalOf(<<"N">>, 3) = 4 /\ PaidOf(<<"N">>, 3) = 1
    /\ TotalOf(<<"S">>, 4) = 0
    /\ TotalOf(<<"N">>, 4) = 4 /\ PaidOf(<<"N">>, 4) = 4
    /\ table_out[1].summary[1].ratio[3] = 475
    /\ table_out[1].summary[1].ratio[4] = 500

\* ------------------------------------------------------ header normalizer
\* some source column carries a label that differs from an alias of the
\* field at most in letter case
HasColumnUpToCase(required) ==
    \E i \in DOMAIN source_cols :
        \E n \in DOMAIN candidates_of(required, required_aliases) :
            lower(candidates_of(required, required_aliases)[n])
                = lower(normalize_header_text(normalize_column(source_cols[i])))

\* C24 (as stated): two column labels that differ only in letter case have
\* the same normalized key, and build_rename_map resolves a required field
\* from a column whose label differs from an alias only in case.
C24_CaseInsensitive ==
    spc = "done" =>
        /\ \A i, j \in DOMAIN source_cols :
               lower(source_cols[i]) = lower(source_cols[j])
                   => normalize_header_text(source_cols[i])
                          = normalize_header_text(source_cols[j])
        /\ \A required \in Required :
               HasColumnUpToCase(required) => required \notin Missing

\* C25: for every header text x, byte-order marks, zero-width spaces,
\* non-breaking spaces and other whitespace included,
\* normalize_header_text(normalize_header_text(x)) = normalize_header_text(x).
C25_Idempotence ==
    spc = "normalized" =>
        \A i \in DOMAIN header_keys :
            normalize_header_text(header_keys[i]) = header_keys[i]

\* a label with every kind of character: the key is the letters alone
C25_Witness ==
    /\ spc = "normalized"
    /\ source_cols = << <<"BOM", " ", "a", "NBSP">> >>
    /\ header_keys = << <<"a">> >>

\* ------------------------------------------------- single-batch resolution
\* the rows of the identifier in the merged input, in input order
RowsOfId(id) == {k \in DOMAIN raw_df : raw_df[k].id = id}

\* pd.isna of a value of the column: amounts are numbers, the others texts
IsNull(field, v) == IF field = "amount" THEN v \in {NA, nan} ELSE v = NaNCell

\* the rows of the identifier whose value in the column is not null
Holding(id, field) == {k \in RowsOfId(id) : ~IsNull(field, raw_df[k][field])}

\* the value the resolution gives a column of the identifier
FirstHeld(id, field) ==
    raw_df[CHOOSE k \in Holding(id, field) : \A j \in Holding(id, field) : k <= j][field]

\* C27: for every identifier and every output column on its own, the merged
\* value is the first non-null value of the column among the identifier's
\* rows in input order, and the merged value is null only if the column is
\* null in all of the identifier's rows.
C27_FirstNonNullPerColumn ==
    mpc = "done" =>
        \A r \in DOMAIN merged_view :
            LET id == merged_view[r].id IN
            /\ IF Holding(id, "region") = {} THEN IsNull("region", merged_view[r].region)
               ELSE merged_view[r].region = FirstHeld(id, "region")
            /\ IF Holding(id, "amount") = {} THEN IsNull("amount", merged_view[r].tithe)
               ELSE merged_view[r].tithe = FirstHeld(id, "amount")
            /\ IF Holding(id, "memo") = {} THEN IsNull("memo", merged_view[r].memo)
               ELSE merged_view[r].memo = FirstHeld(id, "memo")

\* the merged row of A takes its region and amount from the first snapshot
\* and its memo from the second, whose amount is another one
C27_Witness ==
    /\ mpc = "done"
    /\ Cardinality(RowsOfId(<<"A">>)) = 2
    /\ \E r \in DOMAIN merged_view :
          /\ merged_view[r].id = <<"A">>
          /\ \E k, j \in RowsOfId(<<"A">>) :
                /\ k < j
                /\ merged_view[r].region = raw_df[k].region
                /\ merged_view[r].tithe = raw_df[k].amount
                /\ ~IsNull("amount", raw_df[k].amount)
                /\ IsNull("memo", raw_df[k].memo)
                /\ ~IsNull("amount", raw_df[j].amount)
                /\ raw_df[j].amount # raw_df[k].amount
                /\ merged_view[r].memo = raw_df[j].memo
                /\ ~IsNull("memo", raw_df[j].memo)

\* ------------------------------------------------- profile and ledger tie
\* C28: in every state after the fold of a whole row, each member's last
\* updated period is the greatest period for which the member has a ledger
\* entry, and every member that has a profile has at least one ledger entry.
C28_LastUpdatedIsGreatestPeriod ==
    \A k \in DOMAIN persons :
        LET ledger == DOMAIN persons[k].monthly_data IN
        /\ ledger # {}
        /\ persons[k].last_updated_month \in ledger
        /\ \A m \in ledger : m <= persons[k].last_updated_month

\* a member with the ledger entries of three periods, last updated in the
\* third
C28_Witness ==
    /\ pc = "done"
    /\ \E k \in DOMAIN persons :
          /\ DOMAIN persons[k].monthly_data = {1, 2, 3}
          /\ persons[k].last_updated_month = 3

\* --------------------------------------------- scalar and vectorized agree
\* C29: for every cell value, element i of clean_amount_vectorized(series)
\* is absent exactly when clean_amount(series[i]) is absent, and otherwise
\* both are the same number.
C29_ScalarVectorizedAgree ==
    apc = "done" =>
        \A i \in DOMAIN series :
            /\ notna(vec_out[i]) <=> notna(clean_out[i])
            /\ notna(clean_out[i]) => NumEq(vec_out[i], clean_out[i])

\* " 1,5": both give 1.5
C29_Witness ==
    /\ apc = "done"
    /\ series = << <<" ", "1", ",", "5">> >>
    /\ notna(clean_out[1])
    /\ notna(vec_out[1])
    /\ NumEq(clean_out[1], [num |-> 3, den |-> 2])
    /\ NumEq(vec_out[1], [num |-> 3, den |-> 2])

\* ------------------------------------------------ orchestration of a batch
\* the run is over: it has returned or raised
RunOver == bpc \in {"returned", "raised"}

TerminalStatus == {"saved", "skip", "error"}

SavedFolders == {k \in subfolders : status_rows[k] = "saved"}

\* C30 (as stated): each listed subfolder is submitted once, at most
\* min(max_workers, number of subfolders) workers (at least 1) run at a time,
\* and when the run is over, every worker having terminated, it has returned,
\* each subfolder has one terminal status among saved, skip and error, and
\* the returned saved count is the number of subfolders whose status is
\* saved, which is the number of output files written.
C30_OrchestrationComplete ==
    /\ Len(futures) <= Cardinality(subfolders)
    /\ bpc # "submit" => DOMAIN futures = subfolders
    /\ Cardinality(Running) <= Max(1, Min(max_workers, Cardinality(subfolders)))
    /\ RunOver =>
          /\ \A k \in subfolders : futures[k] = "finished"
          /\ bpc = "returned"
          /\ \A k \in subfolders : status_rows[k] \in TerminalStatus
          /\ saved = Cardinality(SavedFolders)
          /\ saved = Cardinality(written)

====
